---- MODULE Spec2Model ----
(***************************************************************************)
(* Model of the configuration parser of mkmueller/config (parser.go).      *)
(*                                                                         *)
(* Text is modelled as TLA+ strings, read character by character with      *)
(* Len, SubSeq and \o.  The input of a parse is the sequence of its        *)
(* physical lines (the pieces bufio.Reader.ReadBytes('\n') returns); the   *)
(* line terminator itself is not kept, because every consumer of a line    *)
(* trims trailing white space first.  A Go error value is modelled by its  *)
(* message, nil by the empty string (no message of the parser is empty).   *)
(***************************************************************************)
EXTENDS Integers, Sequences, FiniteSets, TLC

\* ------------------------------------------------------------------ text

qt == "\""
lf == "\n"
bs == "\\"
nested == "~NESTED~"
nil == ""

\* the character s[i-1:i], "" outside the string; the suffix s[i-1:]
CharAt(s, i) == IF 1 <= i /\ i <= Len(s) THEN SubSeq(s, i, i) ELSE ""
From(s, i) == IF i > Len(s) THEN "" ELSE SubSeq(s, i, Len(s))
HasPrefix(s, p) == Len(s) >= Len(p) /\ SubSeq(s, 1, Len(p)) = p

UpperChars == "ABCDEFGHIJKLMNOPQRSTUVWXYZ"
LowerChars == "abcdefghijklmnopqrstuvwxyz"
DigitChars == "0123456789"

RECURSIVE IndexOf(_, _)
\* 1-based position of the first occurrence of character c in s, 0 if none
IndexOf(s, c) ==
    IF s = "" THEN 0
    ELSE IF CharAt(s, 1) = c THEN 1
    ELSE LET r == IndexOf(From(s, 2), c) IN IF r = 0 THEN 0 ELSE r + 1

InClass(c, class) == Len(c) = 1 /\ IndexOf(class, c) > 0

\* the characters of a string, as a set
CharsOf(class) == {CharAt(class, i) : i \in 1..Len(class)}
UpperSet == CharsOf(UpperChars)
WordSet == CharsOf(UpperChars) \cup CharsOf(LowerChars) \cup CharsOf(DigitChars) \cup {"_"}
LowerOf == [c \in UpperSet |-> CharAt(LowerChars, IndexOf(UpperChars, c))]

\* the regexp class \w
IsWordChar(c) == c \in WordSet

\* the regexp class [\w\.]
IsKeyChar(c) == IsWordChar(c) \/ c = "."

\* the regexp class \s
IsSpaceChar(c) == c \in {" ", "\t", "\n", "\r", "\f"}

isWhiteSp(c) == c \in {" ", "\t", "\n", "\r", "\f"}

RECURSIVE rtrim(_)
rtrim(s) ==
    IF s = "" THEN ""
    ELSE IF isWhiteSp(CharAt(s, Len(s))) THEN rtrim(SubSeq(s, 1, Len(s) - 1))
    ELSE s

RECURSIVE ltrim(_)
ltrim(s) ==
    IF s = "" THEN ""
    ELSE IF isWhiteSp(CharAt(s, 1)) THEN ltrim(From(s, 2))
    ELSE s

trim(s) == ltrim(rtrim(s))

lower(c) == IF c \in UpperSet THEN LowerOf[c] ELSE c

RECURSIVE toLower(_)
toLower(s) == IF s = "" THEN "" ELSE lower(CharAt(s, 1)) \o toLower(From(s, 2))

RECURSIVE Replace(_, _, _)
\* strings.Replace(s, old, new, -1) for a non-empty old
Replace(s, old, new) ==
    IF s = "" THEN ""
    ELSE IF HasPrefix(s, old) THEN new \o Replace(From(s, Len(old) + 1), old, new)
    ELSE CharAt(s, 1) \o Replace(From(s, 2), old, new)

RECURSIVE Itoa(_)
\* the %d verb of fmt.Sprintf for a natural number
Itoa(n) ==
    IF n < 10 THEN CharAt(DigitChars, n + 1)
    ELSE Itoa(n \div 10) \o CharAt(DigitChars, (n % 10) + 1)

RECURSIVE WordSpan(_)
\* length of the longest prefix of s matching \w*
WordSpan(s) ==
    IF s = "" \/ ~IsWordChar(CharAt(s, 1)) THEN 0 ELSE 1 + WordSpan(From(s, 2))

RECURSIVE KeySpan(_)
\* length of the longest prefix of s matching [\w\.]*
KeySpan(s) ==
    IF s = "" \/ ~IsKeyChar(CharAt(s, 1)) THEN 0 ELSE 1 + KeySpan(From(s, 2))

RECURSIVE SpaceSpan(_)
\* length of the longest prefix of s matching \s*
SpaceSpan(s) ==
    IF s = "" \/ ~IsSpaceChar(CharAt(s, 1)) THEN 0 ELSE 1 + SpaceSpan(From(s, 2))

\* ------------------------------------------------------- compiledRegexp

\* Result of FindStringSubmatch: ok is "m.a != nil", g1 and g2 are m.a[1], m.a[2].
NoMatch == [ok |-> FALSE, g1 |-> "", g2 |-> ""]
Match(a, b) == [ok |-> TRUE, g1 |-> a, g2 |-> b]

\* The separator \s*[=:\s]\s* read at the start of r: the lengths it can
\* consume, most preferred first (both \s* are greedy).  With w leading
\* white-space characters, either the character after them is '=' or ':' and
\* the second \s* takes all white space that follows, or the separator is the
\* last of the w white-space characters.  Shorter alternatives leave white
\* space in front of what follows; they are listed last.
SepEnds(r) ==
    LET w == SpaceSpan(r)
        c == CharAt(r, w + 1)
        full == IF c \in {"=", ":"}
                THEN [i \in 1..(SpaceSpan(From(r, w + 2)) + 1) |->
                         w + 1 + SpaceSpan(From(r, w + 2)) - (i - 1)]
                ELSE << >>
        short == [i \in 1..w |-> w - (i - 1)]
    IN  full \o short

RECURSIVE FirstEnd(_, _, _)
\* the first candidate end e of ends for which Cont(the text after e) holds, -1 if none
FirstEnd(ends, r, cont) ==
    IF ends = << >> THEN -1
    ELSE LET e == Head(ends)
             t == From(r, e + 1)
             good == CASE cont = "brace"   -> CharAt(t, 1) = "{"
                       [] cont = "heredoc" -> HasPrefix(t, "<<") /\ WordSpan(From(t, 3)) > 0
                       [] cont = "multi"   -> t # "" /\ CharAt(t, Len(t)) = bs
                       [] cont = "value"   -> t # ""
         IN  IF good THEN e ELSE FirstEnd(Tail(ends), r, cont)

\* comment: ([^#]*)[#]
FindComment(s) ==
    LET i == IndexOf(s, "#")
    IN  IF i > 0 THEN Match(SubSeq(s, 1, i - 1), "") ELSE NoMatch

RECURSIVE PathSpan(_)
\* length of the longest prefix of s matching [^\"=]*
PathSpan(s) ==
    IF s = "" \/ CharAt(s, 1) \in {qt, "="} THEN 0 ELSE 1 + PathSpan(From(s, 2))

RECURSIVE BlankSpan(_)
\* length of the longest prefix of s matching " *"
BlankSpan(s) ==
    IF s = "" \/ CharAt(s, 1) # " " THEN 0 ELSE 1 + BlankSpan(From(s, 2))

\* the include pattern without (?i)
FindInclude_CaseSensitive(s) ==
    IF ~(Len(s) >= 8 /\ SubSeq(s, 1, 7) = "include") THEN NoMatch
    ELSE LET r == From(s, 8)
             n == BlankSpan(r)
             t == From(r, n + 1)
             q == IF HasPrefix(t, qt) THEN 1 ELSE 0
             m == PathSpan(From(t, q + 1))
             after == From(t, q + m + 1)
         IN  IF n >= 1 /\ after \in {"", qt}
             THEN Match(SubSeq(t, 1, q + m), "")
             ELSE NoMatch

\* include: ^(?i)include +(\"?[^\"=]*)\"?$
\* The opening quote is inside the capture group, the closing one outside.
FindInclude(s) ==
    IF ~(Len(s) >= 8 /\ toLower(SubSeq(s, 1, 7)) = "include") THEN NoMatch
    ELSE LET r == From(s, 8)
             n == BlankSpan(r)
             t == From(r, n + 1)
             q == IF HasPrefix(t, qt) THEN 1 ELSE 0
             m == PathSpan(From(t, q + 1))
             after == From(t, q + m + 1)
         IN  IF n >= 1 /\ after \in {"", qt}
             THEN Match(SubSeq(t, 1, q + m), "")
             ELSE NoMatch

\* open_brace: ^([\w]+)\s*[=:\s]\s*{
FindOpenBrace(s) ==
    LET kl == WordSpan(s)
        r == From(s, kl + 1)
        e == FirstEnd(SepEnds(r), r, "brace")
    IN  IF kl > 0 /\ e >= 0 THEN Match(SubSeq(s, 1, kl), "") ELSE NoMatch

\* close_brace: ^\s*}
FindCloseBrace(s) ==
    IF CharAt(s, SpaceSpan(s) + 1) = "}" THEN Match("", "") ELSE NoMatch

\* heredoc: ^\s*([\w\.]+)\s*[=:\s]\s*<<([\w]+)
FindHeredoc(s) ==
    LET s0 == From(s, SpaceSpan(s) + 1)
        kl == KeySpan(s0)
        r == From(s0, kl + 1)
        e == FirstEnd(SepEnds(r), r, "heredoc")
        c == From(r, e + 3)
    IN  IF kl > 0 /\ e >= 0
        THEN Match(SubSeq(s0, 1, kl), SubSeq(c, 1, WordSpan(c)))
        ELSE NoMatch

\* multiline: ^\s*([\w\.]+)\s*[=:\s]\s*(.*)\\$
FindMultiline(s) ==
    LET s0 == From(s, SpaceSpan(s) + 1)
        kl == KeySpan(s0)
        r == From(s0, kl + 1)
        e == FirstEnd(SepEnds(r), r, "multi")
    IN  IF kl > 0 /\ e >= 0 /\ IndexOf(s, lf) = 0
        THEN Match(SubSeq(s0, 1, kl), SubSeq(r, e + 1, Len(r) - 1))
        ELSE NoMatch

\* keyval: ^\s*([\w\.]+)\s*[=:\s]\s*(.+)
FindKeyval(s) ==
    LET s0 == From(s, SpaceSpan(s) + 1)
        kl == KeySpan(s0)
        r == From(s0, kl + 1)
        e == FirstEnd(SepEnds(r), r, "value")
    IN  IF kl > 0 /\ e >= 0
        THEN Match(SubSeq(s0, 1, kl), From(r, e + 1))
        ELSE NoMatch

RECURSIVE rtrimSpace(_)
\* s without its longest suffix matching \s*
rtrimSpace(s) ==
    IF s = "" THEN ""
    ELSE IF IsSpaceChar(CharAt(s, Len(s))) THEN rtrimSpace(SubSeq(s, 1, Len(s) - 1))
    ELSE s

\* quoted: ^"(.+)"\s*$
FindQuoted(s) ==
    LET t == rtrimSpace(s)
    IN  IF Len(t) >= 3 /\ CharAt(t, 1) = qt /\ CharAt(t, Len(t)) = qt
           /\ IndexOf(s, lf) = 0
        THEN Match(SubSeq(t, 2, Len(t) - 1), "")
        ELSE NoMatch

\* multiline_cont: ^\s*([^\\]*)\\$
FindMultilineCont(s) ==
    LET s0 == From(s, SpaceSpan(s) + 1)
    IN  IF s0 # "" /\ IndexOf(s0, bs) = Len(s0)
        THEN Match(SubSeq(s0, 1, Len(s0) - 1), "")
        ELSE NoMatch

RECURSIVE HasDotDot(_)
HasDotDot(k) ==
    IF Len(k) < 2 THEN FALSE
    ELSE HasPrefix(k, "..") \/ HasDotDot(From(k, 2))

\* badkey: ^\.|\.$|\.\.|^_$
badKey(k) ==
    \/ HasPrefix(k, ".")
    \/ (k # "" /\ CharAt(k, Len(k)) = ".")
    \/ HasDotDot(k)
    \/ k = "_"

\* ---------------------------------------------------------------- unquote

HexChars == "0123456789abcdefABCDEF"
OctalChars == "01234567"

RECURSIVE AllIn(_, _)
AllIn(s, class) == s = "" \/ (InClass(CharAt(s, 1), class) /\ AllIn(From(s, 2), class))

\* A character an escape sequence denotes that has no spelling in a TLA+ string
\* (\a, \b, \v, and the numeric escapes other than \x22).
Unprintable == "?"

\* number of characters of the escape of s (s starts with a backslash, e is the
\* character after it) after the backslash, 0 = invalid
EscapeLen(s, e) ==
    CASE e \in {"n", "t", "r", "f", "a", "b", "v", bs, qt} -> 1
      [] e = "x" -> IF Len(s) >= 4 /\ AllIn(SubSeq(s, 3, 4), HexChars) THEN 3 ELSE 0
      [] e = "u" -> IF Len(s) >= 6 /\ AllIn(SubSeq(s, 3, 6), HexChars) THEN 5 ELSE 0
      [] e = "U" -> IF Len(s) >= 10 /\ AllIn(SubSeq(s, 3, 10), HexChars) THEN 9 ELSE 0
      [] InClass(e, OctalChars) ->
            IF Len(s) >= 4 /\ AllIn(SubSeq(s, 3, 4), OctalChars) /\ InClass(e, "0123")
            THEN 3 ELSE 0
      [] OTHER -> 0

\* the character the escape of s stands for
EscapeChar(s, e) ==
    CASE e = "n" -> lf
      [] e = "t" -> "\t"
      [] e = "r" -> "\r"
      [] e = "f" -> "\f"
      [] e = bs -> bs
      [] e = qt -> qt
      [] e = "x" /\ SubSeq(s, 3, 4) = "22" -> qt
      [] OTHER -> Unprintable

Cons(c, r) == [ok |-> r.ok, out |-> c \o r.out]

RECURSIVE UnquoteBody(_)

\* s starts with an escape of n characters after the backslash
UnquoteEscape(s, n) ==
    IF n = 0 THEN [ok |-> FALSE, out |-> ""]
    ELSE Cons(EscapeChar(s, CharAt(s, 2)), UnquoteBody(From(s, n + 2)))

\* strconv.Unquote on `"` + s + `"`, for s without raw double quotes and raw
\* line feeds (unquote replaces both first): [ok, out].
UnquoteBody(s) ==
    IF s = "" THEN [ok |-> TRUE, out |-> ""]
    ELSE IF CharAt(s, 1) # bs THEN Cons(CharAt(s, 1), UnquoteBody(From(s, 2)))
    ELSE UnquoteEscape(s, EscapeLen(s, CharAt(s, 2)))

\* remove boundary quotes: s[1 : l-1]
StripQuotes(s) ==
    IF CharAt(s, 1) = qt /\ CharAt(s, Len(s)) = qt THEN SubSeq(s, 2, Len(s) - 1) ELSE s

\* s with line feeds and embedded quotes replaced, as handed to strconv.Unquote
Escaped(s) == Replace(Replace(StripQuotes(s), lf, "\\n"), qt, "\\x22")

\* the end of unquote, t the result of strconv.Unquote on `"` + s3 + `"`
Unquoted(s3, t) ==
    [val |-> Replace(IF t.ok THEN t.out ELSE s3, "\\x22", qt),
     err |-> IF t.ok THEN nil ELSE "invalid syntax" \o ": Unquote(" \o s3 \o ")",
     panic |-> FALSE]

UnquoteEscaped(s3) == Unquoted(s3, UnquoteBody(s3))

\* unquote: [val, err, panic].  s[1 : l-1] with l = 1 (s is one double quote) is
\* a slice with low > high: the Go runtime panics.
unquote(s) ==
    IF Len(s) = 0 THEN [val |-> "", err |-> nil, panic |-> FALSE]
    ELSE IF s = qt THEN [val |-> "", err |-> nil, panic |-> TRUE]
    ELSE UnquoteEscaped(Escaped(s))

\* ----------------------------------------------------------------- Parser

\* The fields of a Parser that a parse reads and writes, threaded through the
\* operators below: pos is the number of physical lines the reader has
\* delivered, panic is set when the Go runtime has panicked.
NewState == [pos |-> 0, lineno |-> 0, errs |-> << >>, include |-> << >>, panic |-> FALSE]

EmptyMap == [k \in {} |-> [val |-> "", no |-> 0]]

\* a parser that finds no key defined
exists_Never(m, key) == FALSE

exists(m, key) == key \in DOMAIN m
Put(m, key, v) == [k \in DOMAIN m \cup {key} |-> IF k = key THEN v ELSE m[k]]

\* an error list that keeps the latest message only
appendError_KeepLast(st, msg, no) ==
    [st EXCEPT !.errs = <<IF no > 0 THEN msg \o " at line " \o Itoa(no) ELSE msg>>]

\* fmt.Sprintf("%s at line %d", msg, no) when no > 0
appendError(st, msg, no) ==
    [st EXCEPT !.errs = Append(@, IF no > 0 THEN msg \o " at line " \o Itoa(no) ELSE msg)]

RECURSIVE TrimRightLf(_)
\* strings.TrimRight(s, "\n")
TrimRightLf(s) ==
    IF s # "" /\ CharAt(s, Len(s)) = lf THEN TrimRightLf(SubSeq(s, 1, Len(s) - 1)) ELSE s

RECURSIVE JoinErrors(_)
JoinErrors(errs) ==
    IF errs = << >> THEN "" ELSE Head(errs) \o lf \o JoinErrors(Tail(errs))

getErrors(errs) == IF Len(errs) = 0 THEN nil ELSE TrimRightLf(JoinErrors(errs))

RECURSIVE nextLine(_, _)
\* [s, eof, st]: the next logical line, or eof
nextLine(doc, st) ==
    IF st.pos >= Len(doc) THEN [s |-> "", eof |-> TRUE, st |-> st]
    ELSE LET b == doc[st.pos + 1]
             st1 == [st EXCEPT !.pos = @ + 1, !.lineno = @ + 1]
             m == FindComment(b)
             s == trim(IF m.ok THEN m.g1 ELSE b)
         IN  IF s # "" THEN [s |-> s, eof |-> FALSE, st |-> st1]
             ELSE nextLine(doc, st1)

RECURSIVE readHereDocLoop(_, _, _, _)
readHereDocLoop(doc, st, code, content) ==
    IF st.pos >= Len(doc)
    THEN [content |-> content, err |-> "No terminating heredoc code", st |-> st]
    ELSE LET s == doc[st.pos + 1]
             st1 == [st EXCEPT !.pos = @ + 1, !.lineno = @ + 1]
         IN  IF code = trim(s) THEN [content |-> content, err |-> nil, st |-> st1]
             ELSE readHereDocLoop(doc, st1, code,
                      (IF content # "" THEN content \o lf ELSE content) \o rtrim(s))

readHereDoc(doc, st, code) == readHereDocLoop(doc, st, code, "")

Unwrap(s) == LET m == FindQuoted(s) IN IF m.ok THEN m.g1 ELSE s

RECURSIVE readMultiLineLoop(_, _, _)

\* the body of the loop of readMultiLine for the line nl.s, m its match against
\* multiline_cont
contLine(doc, content, nl, m) ==
    IF ~m.ok THEN [content |-> content \o Unwrap(nl.s), st |-> nl.st]
    ELSE readMultiLineLoop(doc, nl.st, content \o Unwrap(m.g1))

readLine(doc, content, nl) ==
    IF nl.eof
    THEN [content |-> content,
          st |-> appendError(nl.st, "EOF encountered before multiline termination",
                             nl.st.lineno)]
    ELSE contLine(doc, content, nl, FindMultilineCont(nl.s))

readMultiLineLoop(doc, st, content) == readLine(doc, content, nextLine(doc, st))

\* [content, st]
readMultiLine(doc, st, content) == readMultiLineLoop(doc, st, Unwrap(content))

\* a scope that returns the placeholders of its blocks with its entries
RemoveNested_Keep(fieldMap) == fieldMap

\* the deferred function of recursive_parse: remove nested placeholders
RemoveNested(fieldMap) ==
    [k \in {x \in DOMAIN fieldMap : fieldMap[x].val # nested} |-> fieldMap[k]]

\* for k, val := range emap { fieldMap[key+"."+k] = val }
MergeNested(fieldMap, key, emap) ==
    LET sub == {key \o "." \o k : k \in DOMAIN emap}
    IN  [p \in DOMAIN fieldMap \cup sub |->
            IF p \in sub THEN emap[CHOOSE k \in DOMAIN emap : key \o "." \o k = p]
            ELSE fieldMap[p]]

\* the line kinds of the switch in recursive_parse, first match wins
LineKind(s) ==
    CASE FindInclude(s).ok    -> "include"
      [] FindOpenBrace(s).ok  -> "open_brace"
      [] FindCloseBrace(s).ok -> "close_brace"
      [] FindHeredoc(s).ok    -> "heredoc"
      [] FindMultiline(s).ok  -> "multiline"
      [] FindKeyval(s).ok     -> "keyval"
      [] OTHER                -> "default"

\* a scope that ends without an error when the input ends inside it
Return_NoError(fieldMap, err, st) ==
    [fm |-> RemoveNested(fieldMap), err |-> nil, st |-> st]

\* what recursive_parse returns, the deferred function applied: [fm, err, st]
Return(fieldMap, err, st) == [fm |-> RemoveNested(fieldMap), err |-> err, st |-> st]

\* the end of the heredoc, multiline and keyval cases, u what unquote returned:
\* val, err = unquote(val); fieldMap[key] = &v{val, o.lineno, false, 0}
store(st, fieldMap, key, u) ==
    IF u.panic THEN [fm |-> fieldMap, st |-> [st EXCEPT !.panic = TRUE]]
    ELSE IF u.err # nil THEN [fm |-> fieldMap, st |-> appendError(st, u.err, st.lineno)]
    ELSE [fm |-> Put(fieldMap, key, [val |-> u.val, no |-> st.lineno]), st |-> st]

\* case heredoc of the switch after readHereDoc returned h: [fm, st]
heredocRead(fieldMap, key, h) ==
    IF h.err # nil THEN [fm |-> fieldMap, st |-> appendError(h.st, h.err, h.st.lineno)]
    ELSE IF exists(fieldMap, key)
    THEN [fm |-> fieldMap, st |-> appendError(h.st, "Duplicate key", h.st.lineno)]
    ELSE store(h.st, fieldMap, key, unquote(h.content))

\* case heredoc of the switch: [fm, st]
caseHeredoc(doc, st, fieldMap, m) ==
    heredocRead(fieldMap, m.g1, readHereDoc(doc, st, m.g2))

\* case multiline of the switch after readMultiLine returned r: [fm, st]
multilineRead(fieldMap, key, r) ==
    IF exists(fieldMap, key)
    THEN [fm |-> fieldMap, st |-> appendError(r.st, "Duplicate key", r.st.lineno)]
    ELSE store(r.st, fieldMap, key, unquote(r.content))

\* case multiline of the switch: [fm, st]
caseMultiline(doc, st, fieldMap, m) ==
    multilineRead(fieldMap, m.g1, readMultiLine(doc, st, m.g2))

\* case keyval of the switch: [fm, st]
caseKeyval(st, fieldMap, m) ==
    IF exists(fieldMap, m.g1)
    THEN [fm |-> fieldMap, st |-> appendError(st, "Duplicate key", st.lineno)]
    ELSE IF badKey(m.g1)
    THEN [fm |-> fieldMap, st |-> appendError(st, "Invalid key", st.lineno)]
    ELSE store(st, fieldMap, m.g1, unquote(m.g2))

\* case open_brace of the switch, after the recursive call returned sub: [fm, st].
\* A panic in the nested scope unwinds this scope too.
caseOpenBrace(fieldMap, key, lineno, sub) ==
    IF sub.st.panic THEN [fm |-> fieldMap, st |-> sub.st]
    ELSE IF sub.err # nil
    THEN [fm |-> fieldMap, st |-> appendError(sub.st, sub.err, lineno)]
    ELSE IF exists(fieldMap, key)
    THEN [fm |-> fieldMap, st |-> appendError(sub.st, "Duplicate key", lineno)]
    ELSE [fm |-> MergeNested(Put(fieldMap, key, [val |-> nested, no |-> lineno]),
                             key, sub.fm),
          st |-> sub.st]

RECURSIVE recursive_parse(_, _, _, _)

\* the switch of recursive_parse on the line s of kind `kind` (not a
\* close-brace line): [fm, st]
switch(doc, depth, st, fieldMap, s, kind) ==
    CASE kind = "include" ->
            [fm |-> fieldMap, st |-> [st EXCEPT !.include = Append(@, FindInclude(s).g1)]]
      [] kind = "open_brace" ->
            caseOpenBrace(fieldMap, FindOpenBrace(s).g1, st.lineno,
                          recursive_parse(doc, depth + 1, st, EmptyMap))
      [] kind = "heredoc" -> caseHeredoc(doc, st, fieldMap, FindHeredoc(s))
      [] kind = "multiline" -> caseMultiline(doc, st, fieldMap, FindMultiline(s))
      [] kind = "keyval" -> caseKeyval(st, fieldMap, FindKeyval(s))
      [] OTHER -> [fm |-> fieldMap, st |-> appendError(st, "Invalid data", st.lineno)]

\* after the switch: the next turn of the for loop, unless the runtime panicked
afterSwitch(doc, depth, c) ==
    IF c.st.panic THEN Return(c.fm, nil, c.st)
    ELSE recursive_parse(doc, depth, c.st, c.fm)

\* one turn of the for loop on the line nl.s; a close-brace line returns at any depth
onLine(doc, depth, fieldMap, nl, kind) ==
    IF kind = "close_brace" THEN Return(fieldMap, nil, nl.st)
    ELSE afterSwitch(doc, depth, switch(doc, depth, nl.st, fieldMap, nl.s, kind))

\* one turn of the for loop, nl what nextLine returned
forLoop(doc, depth, fieldMap, nl) ==
    IF nl.eof
    THEN Return(fieldMap, IF depth > 0 THEN "Missing closing brace" ELSE nil, nl.st)
    ELSE onLine(doc, depth, fieldMap, nl, LineKind(nl.s))

\* The for loop of recursive_parse(depth) from parser state st with the entries
\* fieldMap collected so far: [fm, err, st].
recursive_parse(doc, depth, st, fieldMap) ==
    forLoop(doc, depth, fieldMap, nextLine(doc, st))

\* [vmap, err, st] with the error made of the messages of st
withErrors(fm, st) == [vmap |-> fm, err |-> getErrors(st.errs), st |-> st]

\* a parse that appends 'Nothing parsed' whenever there is no entry
closeParse_EntriesOnly(r) ==
    IF r.st.panic THEN [vmap |-> r.fm, err |-> nil, st |-> r.st]
    ELSE withErrors(r.fm, IF Cardinality(DOMAIN r.fm) = 0
                          THEN appendError(r.st, "Nothing parsed", 0)
                          ELSE r.st)

\* parse after recursive_parse(0) returned r
closeParse(r) ==
    IF r.st.panic THEN [vmap |-> r.fm, err |-> nil, st |-> r.st]
    ELSE withErrors(r.fm, IF Cardinality(DOMAIN r.fm) = 0 /\ Len(r.st.include) = 0
                          THEN appendError(r.st, "Nothing parsed", 0)
                          ELSE r.st)

\* parse: [vmap, err, st]
parse(doc, st) == closeParse(recursive_parse(doc, 0, st, EmptyMap))

\* ------------------------------------------------------------ the machine

PARSE_LOWER_CASE == 4

RECURSIVE BitAnd(_, _)
BitAnd(a, b) ==
    IF a = 0 \/ b = 0 THEN 0
    ELSE (a % 2) * (b % 2) + 2 * BitAnd(a \div 2, b \div 2)

isOption(option, opts) == option = BitAnd(option, opts)
allowedOption(option) == option = BitAnd(option, PARSE_LOWER_CASE)

VARIABLES
    lineno,     \* Parser.lineno
    options,    \* Parser.options
    errs,       \* Parser.errs
    include,    \* Parser.include
    src,        \* the physical lines handed to the last call of ParseStream
    vmap,       \* what parse() returned to the last call: key -> [val, no]
    smap,       \* the StringMap the last call returned
    err,        \* the error the last call returned (nil = "")
    calls,      \* number of calls of ParseStream on this Parser
    panicked,   \* the Go runtime has panicked: the program is gone
    files,      \* the files ParseFile can open: name -> physical lines
    decoder,    \* the Decoder of the last Decode: [options, typ, v, defined]
    encoder,    \* the Encoder of the last Encode: [options, typ, v, out, err]
    callstack   \* the calls of ParseFile or DecodeFile in progress: [state, api, frames, loops]

vars == <<lineno, options, errs, include, src, vmap, smap, err, calls, panicked, files,
          decoder, encoder, callstack>>

\* the number of calls of ParseStream on one Parser
MaxCalls == 2

Docs(lines, n) == UNION {[1..k -> lines] : k \in 0..n}

\* no file exists
NoFiles == [n \in {} |-> << >>]

\* no Decoder has been made
NoDecoder == [options |-> 0, typ |-> [kind |-> "invalid"], v |-> nil, defined |-> {}]

\* no Encoder has been made
NoEncoder == [options |-> 0, typ |-> [kind |-> "invalid"], v |-> nil, out |-> "", err |-> nil]

\* no call of ParseFile or DecodeFile is in progress
NoCalls == [state |-> "idle", api |-> "", frames |-> << >>, loops |-> << >>]

\* NewParser(options...)
Init ==
    /\ lineno = 0
    /\ options \in {o \in {0, PARSE_LOWER_CASE} : allowedOption(o)}
    /\ errs = << >>
    /\ include = << >>
    /\ src = << >>
    /\ vmap = EmptyMap
    /\ smap = << >>
    /\ err = nil
    /\ calls = 0
    /\ panicked = FALSE
    /\ files = NoFiles
    /\ decoder = NoDecoder
    /\ encoder = NoEncoder
    /\ callstack = NoCalls

\* for k, v := range vmap { smap[k or toLower(k)] = v.val }: the maps the loop can
\* build.  Go ranges over a map in an unspecified order, so when two keys have
\* the same lower-case form, either value can be the one that stays.
StringMaps(m, opts) ==
    LET Key(k) == IF isOption(PARSE_LOWER_CASE, opts) THEN toLower(k) ELSE k
        keys == {Key(k) : k \in DOMAIN m}
    IN  {[k \in keys |-> m[f[k]].val] :
            f \in {g \in [keys -> DOMAIN m] : \A k \in keys : Key(g[k]) = k}}

\* ParseStream on the input doc after parse returned r
returned(doc, r) ==
    /\ src' = doc
    /\ calls' = calls + 1
    /\ UNCHANGED <<options, files, decoder, encoder, callstack>>
    /\ lineno' = r.st.lineno
    /\ errs' = r.st.errs
    /\ include' = r.st.include
    /\ panicked' = r.st.panic
    /\ IF r.st.panic
       THEN UNCHANGED <<vmap, smap, err>>
       ELSE /\ vmap' = r.vmap
            /\ smap' \in StringMaps(r.vmap, options)
            /\ err' = r.err

\* Parser.Parse(bs) / Parser.ParseStream(r) on the input doc
ParseStream(doc) ==
    /\ ~panicked
    /\ calls < MaxCalls
    /\ returned(doc, parse(doc, [pos |-> 0, lineno |-> lineno, errs |-> errs,
                                 include |-> include, panic |-> FALSE]))

\* Parse(src, options...): NewParser(options...).ParseStream(reader of src)
Parse(doc) == calls = 0 /\ ParseStream(doc)

\* One Parser used for several inputs in turn.
ReuseLines == {"A=1", "foo", "include x"}
MaxReuseLines == 2

Next == \E doc \in Docs(ReuseLines, MaxReuseLines) : ParseStream(doc)

Spec == Init /\ [][Next]_vars

\* the entries of a field map as key -> value
ValueMap(m) == [k \in DOMAIN m |-> m[k].val]

NoEntries == [k \in {} |-> ""]

\* ------------------------------------------------------- duplicate keys

\* Definitions of the key K in each line form, and lines they are made of.
DupLines == {"K=1", "K=2", "K {", "}", "K=<<b", "K=a\\", "b"}
MaxDupLines == 4

NextDup == \E doc \in Docs(DupLines, MaxDupLines) : Parse(doc)
SpecDup == Init /\ [][NextDup]_vars

\* One definition of K: its lines, whether it is a brace block, and the
\* entries a document made of this definition alone has.
DupDefs ==
    { [lines |-> <<"K=1">>, block |-> FALSE, entries |-> [k \in {"K"} |-> "1"]],
      [lines |-> <<"K=2">>, block |-> FALSE, entries |-> [k \in {"K"} |-> "2"]],
      [lines |-> <<"K=<<b", "b">>, block |-> FALSE, entries |-> [k \in {"K"} |-> ""]],
      [lines |-> <<"K=<<b", "K=2", "b">>, block |-> FALSE,
       entries |-> [k \in {"K"} |-> "K=2"]],
      [lines |-> <<"K=a\\", "b">>, block |-> FALSE, entries |-> [k \in {"K"} |-> "ab"]],
      [lines |-> <<"K {", "}">>, block |-> TRUE, entries |-> NoEntries],
      [lines |-> <<"K {", "K=1", "}">>, block |-> TRUE,
       entries |-> [k \in {"K.K"} |-> "1"]] }

\* the line a redefinition d2 that starts after `before` lines is reported at
DupLineOf(before, d2) == before + (IF d2.block THEN 1 ELSE Len(d2.lines))

DuplicateAt(n) == "Duplicate key at line " \o Itoa(n)

Prefixed(parent, entries) ==
    [p \in {parent \o "." \o k : k \in DOMAIN entries} |->
        entries[CHOOSE k \in DOMAIN entries : parent \o "." \o k = p]]

\* C1: a document that defines K and then defines K again in the same scope, in
\* any pair of line forms (key/value, heredoc, multiline, brace block), at top
\* level or inside a block, reports exactly "Duplicate key at line n", n being the
\* redefining line (the opening line of a block, the last line of a heredoc or
\* multiline), and the result holds the entries of the first definition only.
\* (A result without entries also gets the closing "Nothing parsed".)
C1_DuplicateKeepsFirst ==
    \A d1 \in DupDefs, d2 \in DupDefs :
        LET closing == IF d1.entries = NoEntries THEN <<"Nothing parsed">> ELSE << >>
        IN  /\ (calls = 1 /\ src = d1.lines \o d2.lines) =>
                  /\ errs = <<DuplicateAt(DupLineOf(Len(d1.lines), d2))>> \o closing
                  /\ err = getErrors(errs)
                  /\ ValueMap(vmap) = d1.entries
                  /\ (options = 0 => smap = d1.entries)
            /\ (calls = 1 /\ src = <<"K {">> \o d1.lines \o d2.lines \o <<"}">>) =>
                  /\ errs = <<DuplicateAt(DupLineOf(1 + Len(d1.lines), d2))>> \o closing
                  /\ ValueMap(vmap) = Prefixed("K", d1.entries)

C1_Witness ==
    /\ calls = 1
    /\ src = <<"K=<<b", "b", "K {", "}">>
    /\ errs = <<"Duplicate key at line 3">>
    /\ ValueMap(vmap) = [k \in {"K"} |-> ""]

\* --------------------------------------------- dotted key against block

FlatLines == {"A.B=1", "A {", "B=2", "}"}
MaxFlatLines == 4

NextFlat == \E doc \in Docs(FlatLines, MaxFlatLines) : Parse(doc)
SpecFlat == Init /\ [][NextFlat]_vars

\* C2: the path A.B defined by a dotted key and by a brace block, in either
\* order: the second definition is an error and A.B keeps the first value.
C2_PathNeverOverwritten ==
    /\ (calls = 1 /\ src = <<"A.B=1", "A {", "B=2", "}">>) =>
          (errs # << >> /\ ValueMap(vmap) = [k \in {"A.B"} |-> "1"])
    /\ (calls = 1 /\ src = <<"A {", "B=2", "}", "A.B=1">>) =>
          (errs # << >> /\ ValueMap(vmap) = [k \in {"A.B"} |-> "2"])

\* ---------------------------------------------------------- brace blocks

BlockLines == {"A {", "B {", "C=1", "_=2", "}"}
MaxBlockLines == 5

NextBlock == \E doc \in Docs(BlockLines, MaxBlockLines) : Parse(doc)
SpecBlock == Init /\ [][NextBlock]_vars

QuotedInclude == "include \"x\""

\* What a line of BlockLines or IncLines is, read off its text.
BlockItem(l) ==
    CASE l = "A {" -> [t |-> "open", k |-> "A", v |-> ""]
      [] l = "B {" -> [t |-> "open", k |-> "B", v |-> ""]
      [] l = "C=1" -> [t |-> "kv", k |-> "C", v |-> "1"]
      [] l = "_=2" -> [t |-> "kv", k |-> "_", v |-> "2"]
      [] l = "}"   -> [t |-> "close", k |-> "", v |-> ""]
      [] l = "K=1" -> [t |-> "kv", k |-> "K", v |-> "1"]
      [] l = "include x" -> [t |-> "include", k |-> "x", v |-> ""]
      [] l = "INCLUDE y" -> [t |-> "include", k |-> "y", v |-> ""]
      [] l = QuotedInclude -> [t |-> "include", k |-> "x", v |-> qt]

RECURSIVE JoinDots(_)
JoinDots(ks) ==
    IF Len(ks) = 1 THEN Head(ks) ELSE Head(ks) \o "." \o JoinDots(Tail(ks))

RECURSIVE OpenAfter(_, _, _)
\* The open-brace lines of doc that are not closed after its first i lines,
\* outermost first, given those open before are `open`; <<0>> \o ... when a
\* closing brace stood at depth 0.
OpenAfter(doc, i, open) ==
    IF i = 0 THEN << >>
    ELSE LET before == OpenAfter(doc, i - 1, open)
             it == BlockItem(doc[i])
         IN  IF before # << >> /\ Head(before) = 0 THEN before
             ELSE IF it.t = "open" THEN Append(before, i)
             ELSE IF it.t = "close"
             THEN IF before = << >> THEN <<0>>
                  ELSE SubSeq(before, 1, Len(before) - 1)
             ELSE before

OpenAtEnd(doc) == OpenAfter(doc, Len(doc), << >>)
HasStray(doc) == OpenAtEnd(doc) # << >> /\ Head(OpenAtEnd(doc)) = 0
Balanced(doc) == OpenAtEnd(doc) = << >>

\* the keys of the scopes line i of doc stands in, outermost first
ScopeOf(doc, i) == [j \in 1..Len(OpenAfter(doc, i - 1, << >>)) |->
                       BlockItem(doc[OpenAfter(doc, i - 1, << >>)[j]]).k]

\* the key path line i (an open-brace or key/value line) defines
PathAt(doc, i) == JoinDots(Append(ScopeOf(doc, i), BlockItem(doc[i]).k))

Defining(doc) == {i \in 1..Len(doc) : BlockItem(doc[i]).t \in {"open", "kv"}}
UniquePaths(doc) ==
    \A i \in Defining(doc), j \in Defining(doc) :
        PathAt(doc, i) = PathAt(doc, j) => i = j

RECURSIVE DottedFrom(_, _)
\* the document that defines the values of the balanced document doc, from
\* line i on, with dotted keys and no block
DottedFrom(doc, i) ==
    IF i > Len(doc) THEN << >>
    ELSE IF BlockItem(doc[i]).t = "kv"
    THEN <<PathAt(doc, i) \o "=" \o BlockItem(doc[i]).v>> \o DottedFrom(doc, i + 1)
    ELSE DottedFrom(doc, i + 1)

Dotted(doc) == DottedFrom(doc, 1)

HasBlock(doc) == \E i \in 1..Len(doc) : BlockItem(doc[i]).t = "open"
BareUnderscoreInBlock(doc) ==
    \E i \in 1..Len(doc) : BlockItem(doc[i]).k = "_" /\ ScopeOf(doc, i) # << >>

SameAsDotted ==
    /\ ValueMap(vmap) = ValueMap(parse(Dotted(src), NewState).vmap)
    /\ \A i \in 1..Len(src) :
          BlockItem(src[i]).t = "open" => PathAt(src, i) \notin DOMAIN vmap

\* C3 as stated: a balanced document with brace blocks whose key paths are all
\* different yields the entries of the document that defines the same values
\* with dotted keys, and no entry for a block's parent key.
C3_BlockSameAsDotted ==
    (calls = 1 /\ Balanced(src) /\ HasBlock(src) /\ UniquePaths(src)) => SameAsDotted

\* C3 amended: the same, for documents in which no key inside a block is the
\* bare token "_".
C3_BlockSameAsDottedValidKeys ==
    (calls = 1 /\ Balanced(src) /\ HasBlock(src) /\ UniquePaths(src)
        /\ ~BareUnderscoreInBlock(src)) => SameAsDotted

C3_Witness ==
    /\ calls = 1
    /\ src = <<"A {", "B {", "C=1", "}", "}">>
    /\ ValueMap(vmap) = [k \in {"A.B.C"} |-> "1"]
    /\ errs = << >>

\* ---------------------------------------------- input ends in open scopes

MissingBrace(n) == "Missing closing brace at line " \o Itoa(n)
IsMissingBrace(e) == HasPrefix(e, "Missing closing brace")

\* the messages for the open-brace lines `open`, innermost scope first
MissingFor(open) == [j \in 1..Len(open) |-> MissingBrace(open[Len(open) + 1 - j])]

\* C4: when the input ends in open brace scopes (and no closing brace stood
\* outside a scope), the errors hold 'Missing closing brace at line n' once per
\* open scope, n the line of its open-brace line, innermost first, and the
\* entries are exactly those of the lines before the outermost unclosed scope
\* (nothing defined inside an unclosed scope is an entry).
C4_MissingBracePerOpenScope ==
    LET open == OpenAtEnd(src)
    IN  (calls = 1 /\ open # << >> /\ ~HasStray(src)) =>
            /\ SelectSeq(errs, IsMissingBrace) = MissingFor(open)
            /\ ValueMap(vmap) =
                  ValueMap(parse(SubSeq(src, 1, Head(open) - 1), NewState).vmap)

C4_Witness ==
    /\ calls = 1
    /\ src = <<"C=1", "A {", "B {", "C=1">>
    /\ errs = <<MissingBrace(3), MissingBrace(2)>>
    /\ ValueMap(vmap) = [k \in {"C"} |-> "1"]

\* ------------------------------------------- closing brace outside a scope

\* C5 as stated: a closing brace line at depth 0 does not end the parse: every
\* line after it is read, and a valid key/value line after it yields its entry.
C5_StrayBraceDoesNotEndParse ==
    (calls = 1 /\ HasStray(src)) =>
        /\ lineno = Len(src)
        /\ (src = <<"}", "C=1">> => ValueMap(vmap) = [k \in {"C"} |-> "1"])

\* ---------------------------------------------------- unterminated heredoc

HeredocLines == {"H=<<E", "x", " E ", "K=1"}
MaxHeredocLines == 4

NextHeredoc == \E doc \in Docs(HeredocLines, MaxHeredocLines) : Parse(doc)
SpecHeredoc == Init /\ [][NextHeredoc]_vars

Range(seq) == {seq[i] : i \in 1..Len(seq)}

\* line h of doc is a heredoc header (the first of doc, so that it is read as a
\* header) and no line after it is its terminator
UnterminatedAt(doc, h) ==
    /\ doc[h] = "H=<<E"
    /\ \A j \in 1..(h - 1) : doc[j] # "H=<<E"
    /\ \A j \in (h + 1)..Len(doc) : trim(doc[j]) # "E"

\* C6 as stated: a heredoc whose terminator is missing is reported as
\* 'No terminating heredoc code at line n', n the line of the heredoc header,
\* however many body lines follow, and its key is not an entry.
C6_UnterminatedHeredocAtHeader ==
    \A h \in 1..Len(src) :
        (calls = 1 /\ UnterminatedAt(src, h)) =>
            /\ ("No terminating heredoc code at line " \o Itoa(h)) \in Range(errs)
            /\ "H" \notin DOMAIN vmap

\* ------------------------------------------------- violations on many lines

BadEscape == "C=\"\\q\""
ErrLines == {"A=1", "B=2", "foo", "_=1", BadEscape}
MaxErrLines == 5

NextErr == \E doc \in Docs(ErrLines, MaxErrLines) : Parse(doc)
SpecErr == Init /\ [][NextErr]_vars

\* What a line of ErrLines is, read off its text: a key/value line (bad = its
\* value does not unescape) or a line that is no statement.
ErrItem(l) ==
    CASE l = "A=1" -> [t |-> "kv", k |-> "A", v |-> "1", bad |-> FALSE]
      [] l = "B=2" -> [t |-> "kv", k |-> "B", v |-> "2", bad |-> FALSE]
      [] l = "_=1" -> [t |-> "kv", k |-> "_", v |-> "1", bad |-> FALSE]
      [] l = BadEscape -> [t |-> "kv", k |-> "C", v |-> "", bad |-> TRUE]
      [] l = "foo" -> [t |-> "data", k |-> "", v |-> "", bad |-> FALSE]

\* the valid definitions among the first n lines of doc: the lines that define
\* a well-formed key not defined by a valid line before
RECURSIVE ValidLines(_, _)
ValidLines(doc, n) ==
    IF n = 0 THEN {}
    ELSE LET before == ValidLines(doc, n - 1)
             it == ErrItem(doc[n])
         IN  IF it.t = "kv" /\ it.k # "_" /\ ~it.bad
                /\ \A j \in before : ErrItem(doc[j]).k # it.k
             THEN before \cup {n} ELSE before

\* the violation of line n of doc, "" for a valid line
ViolationAt(doc, n) ==
    LET it == ErrItem(doc[n])
    IN  IF n \in ValidLines(doc, n) THEN ""
        ELSE IF it.t = "data" THEN "Invalid data"
        ELSE IF \E j \in ValidLines(doc, n - 1) : ErrItem(doc[j]).k = it.k
        THEN "Duplicate key"
        ELSE IF it.k = "_" THEN "Invalid key"
        ELSE "invalid syntax: Unquote(\\q)"

RECURSIVE ViolationsFrom(_, _)
ViolationsFrom(doc, n) ==
    IF n > Len(doc) THEN << >>
    ELSE (IF ViolationAt(doc, n) = "" THEN << >>
          ELSE <<ViolationAt(doc, n) \o " at line " \o Itoa(n)>>)
         \o ViolationsFrom(doc, n + 1)

RECURSIVE JoinLf(_)
JoinLf(msgs) ==
    IF msgs = << >> THEN ""
    ELSE IF Len(msgs) = 1 THEN Head(msgs)
    ELSE Head(msgs) \o lf \o JoinLf(Tail(msgs))

\* C7: for a document of key/value lines and lines that are no statement, the
\* error list holds exactly one message '<message> at line <n>' per violating
\* line (Invalid data, Invalid key, Duplicate key, unescape failure), in line
\* order (followed only by the closing 'Nothing parsed' when no line is valid),
\* the returned error is the list joined by newlines, and every valid line
\* yields its entry.
C7_AllViolationsReported ==
    LET valid == ValidLines(src, Len(src))
        closing == IF valid = {} THEN <<"Nothing parsed">> ELSE << >>
    IN  calls = 1 =>
            /\ errs = ViolationsFrom(src, 1) \o closing
            /\ err = JoinLf(errs)
            /\ DOMAIN vmap = {ErrItem(src[n]).k : n \in valid}
            /\ \A n \in valid : vmap[ErrItem(src[n]).k].val = ErrItem(src[n]).v

C7_Witness ==
    /\ calls = 1
    /\ src = <<"foo", "A=1", "_=1", "A=1", BadEscape>>
    /\ err = "Invalid data at line 1" \o lf \o "Invalid key at line 3" \o lf
             \o "Duplicate key at line 4" \o lf
             \o "invalid syntax: Unquote(\\q) at line 5"
    /\ ValueMap(vmap) = [k \in {"A"} |-> "1"]

\* ---------------------------------------------------------- include lines

IncLines == {"include x", "INCLUDE y", QuotedInclude, "A {", "}", "K=1"}
MaxIncLines == 4

NextInc == \E doc \in Docs(IncLines, MaxIncLines) : Parse(doc)
SpecInc == Init /\ [][NextInc]_vars

IsIncludeLine(l) == BlockItem(l).t = "include"
IsOtherLine(l) == ~IsIncludeLine(l)
IncludeLinesOf(doc) == SelectSeq(doc, IsIncludeLine)

NothingParsed == "Nothing parsed"
Count(seq, x) == Cardinality({i \in 1..Len(seq) : seq[i] = x})

\* C8: a top-level parse appends the message 'Nothing parsed', without a line
\* number, once and after all other messages, if and only if it produced no
\* entry and recorded no include path.
C8_NothingParsedIffEmpty ==
    calls = 1 =>
        /\ (NothingParsed \in Range(errs)) <=> (DOMAIN vmap = {} /\ include = << >>)
        /\ NothingParsed \in Range(errs) =>
              /\ errs[Len(errs)] = NothingParsed
              /\ Count(errs, NothingParsed) = 1
              /\ err = JoinLf(errs)

C8_Witness ==
    /\ calls = 1
    /\ src = <<"A {", "K=1">>
    /\ vmap = EmptyMap /\ include = << >>
    /\ errs = <<MissingBrace(1), NothingParsed>>

\* C9: in a document with no closing brace outside a scope, every include line
\* (keyword in any letter case, at any brace depth) appends one path to the
\* include list, in source order and with duplicates kept, the path of a line
\* written without quotes being the text after the keyword; include lines
\* create no entry; a document of include lines only parses without error.
C9_IncludesRecorded ==
    LET incs == IncludeLinesOf(src)
    IN  (calls = 1 /\ ~HasStray(src)) =>
            /\ Len(include) = Len(incs)
            /\ \A j \in 1..Len(incs) :
                  BlockItem(incs[j]).v # qt => include[j] = BlockItem(incs[j]).k
            /\ ValueMap(vmap) =
                  ValueMap(parse(SelectSeq(src, IsOtherLine), NewState).vmap)
            /\ (incs = src /\ src # << >>) => (err = nil /\ errs = << >> /\ vmap = EmptyMap)

C9_Witness ==
    /\ calls = 1
    /\ src = <<"A {", "INCLUDE y", "}", "include x">>
    /\ include = <<"y", "x">>
    /\ vmap = EmptyMap /\ err = nil

\* C10 as stated: the path recorded for an include line whose path is wrapped
\* in double quotes is the path without the quotes, the path recorded for the
\* same line written without quotes.
C10_QuotedIncludeStripped ==
    (calls = 1 /\ ~HasStray(src)) =>
        \A j \in 1..Len(IncludeLinesOf(src)) :
            /\ j <= Len(include)
            /\ include[j] = BlockItem(IncludeLinesOf(src)[j]).k

\* ---------------------------------------------------------- included files

\* the error of os.Open for a file that does not exist
OpenError(filename) == "open " \o filename \o ": no such file or directory"

\* for k,v := range m { smap[k] = v }
MergeMap(a, m) == [k \in DOMAIN a \cup DOMAIN m |-> IF k \in DOMAIN m THEN m[k] ELSE a[k]]

\* one turn of the loop of ParseFile over o.include, m what ParseFile(fname)
\* returned: acc = [smap, st, panic]
included(acc, fname, m) ==
    [smap |-> MergeMap(acc.smap, m.smap),
     st |-> IF m.err # nil
            THEN appendError(acc.st, "Errors in included file: " \o fname \o " ("
                                     \o lf \o m.err \o lf \o ")", 0)
            ELSE acc.st,
     panic |-> m.panic]

RECURSIVE ParseFile(_, _, _)

RECURSIVE includeLoop(_, _, _, _)
\* the loop of ParseFile over the include paths incs: the set of [smap, st, panic]
\* it can end with
includeLoop(fs, opts, incs, acc) ==
    IF incs = << >> \/ acc.panic THEN {acc}
    ELSE UNION {includeLoop(fs, opts, Tail(incs), included(acc, Head(incs), m)) :
                   m \in ParseFile(fs, Head(incs), opts)}

\* ParseFile after o.parse() returned r: what it can return
parsedFile(fs, opts, r) ==
    IF r.st.panic
    THEN {[smap |-> NoEntries, err |-> nil, st |-> r.st, vmap |-> r.vmap, panic |-> TRUE]}
    ELSE {[smap |-> a.smap, err |-> getErrors(a.st.errs), st |-> a.st, vmap |-> r.vmap,
           panic |-> a.panic] :
             a \in UNION {includeLoop(fs, opts, r.st.include,
                                      [smap |-> sm, st |-> r.st, panic |-> FALSE]) :
                             sm \in StringMaps(r.vmap, opts)}}

\* ParseFile(filename, options...) with the files fs: the set of
\* [smap, err, st, vmap, panic] it can return, st and vmap the parser o and its
\* field map at the end.  (On a cycle of includes ParseFile recurses until the
\* stack is exhausted; the file systems used here have no cycle.)
ParseFile(fs, filename, opts) ==
    IF filename \notin DOMAIN fs
    THEN {[smap |-> NoEntries, err |-> OpenError(filename), st |-> NewState,
           vmap |-> EmptyMap, panic |-> FALSE]}
    ELSE parsedFile(fs, opts, parse(fs[filename], NewState))

\* the program after ParseFile(filename) on the files fs returned m
returnedFile(fs, filename, m) ==
    /\ files' = fs
    /\ src' = IF filename \in DOMAIN fs THEN fs[filename] ELSE << >>
    /\ calls' = calls + 1
    /\ UNCHANGED <<options, decoder, encoder, callstack>>
    /\ lineno' = m.st.lineno
    /\ errs' = m.st.errs
    /\ include' = m.st.include
    /\ panicked' = m.panic
    /\ vmap' = m.vmap
    /\ smap' = m.smap
    /\ err' = m.err

\* the files fs are written, then ParseFile(filename, options) is called
CallParseFile(fs, filename) ==
    /\ ~panicked
    /\ calls = 0
    /\ \E m \in ParseFile(fs, filename, options) : returnedFile(fs, filename, m)

FileLines == {"include x", "include y", "K=1", "J=1"}
MaxFileLines == 3
IncludedX == {<<"K=2">>, <<"K=2", "J=2">>}

\* the file m holds doc, the file x holds xd, the file y defines J
FilesOf(doc, xd) ==
    [n \in {"m", "x", "y"} |-> CASE n = "m" -> doc [] n = "x" -> xd [] n = "y" -> <<"J=3">>]

NextFile ==
    \E doc \in Docs(FileLines, MaxFileLines), xd \in IncludedX :
        CallParseFile(FilesOf(doc, xd), "m")
SpecFile == Init /\ [][NextFile]_vars

\* What a line of the files of SpecFile is, read off its text.
FileItem(l) ==
    CASE l = "include x" -> [t |-> "include", k |-> "x", v |-> ""]
      [] l = "include y" -> [t |-> "include", k |-> "y", v |-> ""]
      [] l = "K=1" -> [t |-> "kv", k |-> "K", v |-> "1"]
      [] l = "K=2" -> [t |-> "kv", k |-> "K", v |-> "2"]
      [] l = "J=1" -> [t |-> "kv", k |-> "J", v |-> "1"]
      [] l = "J=2" -> [t |-> "kv", k |-> "J", v |-> "2"]
      [] l = "J=3" -> [t |-> "kv", k |-> "J", v |-> "3"]

RECURSIVE InlineMap(_, _, _)
\* the entries acc after the lines of doc are read with the text of every
\* included file standing at its include line, a later definition replacing an
\* earlier one
InlineMap(fs, doc, acc) ==
    IF doc = << >> THEN acc
    ELSE InlineMap(fs, Tail(doc),
                   IF FileItem(Head(doc)).t = "include"
                   THEN InlineMap(fs, fs[FileItem(Head(doc)).k], acc)
                   ELSE Put(acc, FileItem(Head(doc)).k, FileItem(Head(doc)).v))

\* no key is defined twice by the lines of doc itself
OwnKeysUnique(doc) ==
    \A i \in 1..Len(doc), j \in 1..Len(doc) :
        (FileItem(doc[i]).t = "kv" /\ FileItem(doc[i]).k = FileItem(doc[j]).k) => i = j

\* C11 as stated: ParseFile returns the entries of the file with the text of
\* each included file standing inline at its include line, the definition that
\* comes last winning, and raises no duplicate error for a key defined in
\* several files; a file of one include line returns the included file's map.
C11_IncludedAsInline ==
    (calls = 1 /\ files # NoFiles /\ options = 0 /\ src # << >> /\ OwnKeysUnique(src)) =>
        /\ smap = InlineMap(files, src, NoEntries)
        /\ err = nil

\* ------------------------------------------------------------ malformed keys

KeyLines == {".K=1", "_=1", "K..J=<<E", "E", "K.=a\\", "b"}
MaxKeyLines == 3

NextKey == \E doc \in Docs(KeyLines, MaxKeyLines) : Parse(doc)
SpecKey == Init /\ [][NextKey]_vars

\* k does not start or end with '.', holds no '..' and is not the token '_'
WellFormedKey(k) ==
    /\ k # "" /\ k # "_"
    /\ CharAt(k, 1) # "." /\ CharAt(k, Len(k)) # "."
    /\ \A i \in 1..(Len(k) - 1) : SubSeq(k, i, i + 1) # ".."

\* C12 as stated: every key of the map a parse returns is a well-formed key
\* path, whichever line form defined it, and a document whose definitions all
\* have malformed keys gets 'Invalid key at line n' for each and no entry.
C12_KeysWellFormed ==
    calls = 1 =>
        /\ \A k \in DOMAIN vmap : WellFormedKey(k)
        /\ (src = <<"K..J=<<E", "b", "E">> =>
               errs = <<"Invalid key at line 1", NothingParsed>>)

\* ------------------------------------------------- one Parser, two inputs

\* C13 as stated: the second call of ParseStream on one Parser returns the
\* error a new Parser returns for the same input (only the violations of that
\* input, lines counted from 1), and Includes() then lists the includes of
\* that input only.
C13_SecondCallOwnState ==
    calls = 2 =>
        /\ err = parse(src, NewState).err
        /\ include = parse(src, NewState).st.include
        /\ lineno = Len(src)

\* ---------------------------------------------------------------- Decoder

ALLOW_SNAKE_CASE == 1
IGNORE_CASE == 2
ENCODE_SNAKE_CASE == 8
ENCODE_LOWER_CASE == 16
ENCODE_ZERO_VALUES == 32
OVERWRITE_FILE == 64

\* Decoder.allowedOption
allowedDecoderOption(option) ==
    option = BitAnd(option, ALLOW_SNAKE_CASE + ENCODE_SNAKE_CASE + IGNORE_CASE
                            + ENCODE_LOWER_CASE)

isUpper(c) == InClass(c, UpperChars)
isLower(c) == InClass(c, LowerChars)
isNumber(c) == InClass(c, DigitChars)
isPublic_Always(s) == TRUE

isPublic(s) == isUpper(CharAt(s, 1))

RECURSIVE snakeLoop(_, _, _, _, _)
\* the body of the loop of toSnakeCase for the character c, i already counted
snakeChar(s, c, i, lastn, lastu, lastw) ==
    IF i > 1 /\ isNumber(c) # lastn
    THEN "_" \o lower(c) \o snakeLoop(From(s, 2), i, isNumber(c), isUpper(c), isLower(c))
    ELSE IF i > 1 /\ isUpper(c) # lastu /\ lastw
    THEN "_" \o lower(c) \o snakeLoop(From(s, 2), 0, isNumber(c), isUpper(c), isLower(c))
    ELSE lower(c) \o snakeLoop(From(s, 2), i, isNumber(c), isUpper(c), isLower(c))

\* the loop of toSnakeCase over the rest s, i characters into the current word
snakeLoop(s, i, lastn, lastu, lastw) ==
    IF s = "" THEN ""
    ELSE snakeChar(s, CharAt(s, 1), IF CharAt(s, 1) = "_" THEN 0 ELSE i + 1,
                   lastn, lastu, lastw)

toSnakeCase(s) == snakeLoop(s, 0, FALSE, FALSE, FALSE)

setKeyCase(option, k) ==
    IF isOption(ALLOW_SNAKE_CASE, option) \/ isOption(ENCODE_SNAKE_CASE, option)
    THEN IF isOption(IGNORE_CASE, option) \/ isOption(ENCODE_LOWER_CASE, option)
         THEN toLower(toSnakeCase(k))
         ELSE toSnakeCase(k)
    ELSE IF isOption(IGNORE_CASE, option) \/ isOption(ENCODE_LOWER_CASE, option)
         THEN toLower(k)
         ELSE k

newError(msg, no) == IF no > 0 THEN msg \o " at line " \o Itoa(no) ELSE msg

\* --- strconv on decimal text.  Numbers are kept as decimal text (a sign and a
\* magnitude without leading zeros), so that 64-bit values keep their width.

IsDigits(s) == s # "" /\ AllIn(s, DigitChars)

RECURSIVE StripZeros(_)
StripZeros(d) ==
    IF Len(d) > 1 /\ CharAt(d, 1) = "0" THEN StripZeros(From(d, 2)) ELSE d

RECURSIVE LexLe(_, _)
\* a <= b for digit strings of one length
LexLe(a, b) ==
    \/ a = ""
    \/ IndexOf(DigitChars, CharAt(a, 1)) < IndexOf(DigitChars, CharAt(b, 1))
    \/ (CharAt(a, 1) = CharAt(b, 1) /\ LexLe(From(a, 2), From(b, 2)))

\* a <= b for magnitudes without leading zeros
DecLe(a, b) == Len(a) < Len(b) \/ (Len(a) = Len(b) /\ LexLe(a, b))

MaxInt64 == "9223372036854775807"
MinInt64Mag == "9223372036854775808"
MaxUint64 == "18446744073709551615"

\* *strconv.NumError.Error()
NumError(fn, s, msg) == "strconv." \o fn \o ": parsing " \o qt \o s \o qt \o ": " \o msg

Sign(s) == IF s # "" /\ CharAt(s, 1) \in {"+", "-"} THEN CharAt(s, 1) ELSE ""

\* a parsed number, or the error of the parse
Number(neg, mag) == [ok |-> TRUE, neg |-> neg /\ mag # "0", mag |-> mag, err |-> nil]
NotNumber(e) == [ok |-> FALSE, neg |-> FALSE, mag |-> "0", err |-> e]

parsedInt(fn, s, neg, d) ==
    IF ~IsDigits(d) THEN NotNumber(NumError(fn, s, "invalid syntax"))
    ELSE IF ~DecLe(StripZeros(d), IF neg THEN MinInt64Mag ELSE MaxInt64)
    THEN NotNumber(NumError(fn, s, "value out of range"))
    ELSE Number(neg, StripZeros(d))

\* strconv.ParseInt(s, 10, 64), and strconv.Atoi(s) where int has 64 bits
ParseInt(fn, s) == parsedInt(fn, s, Sign(s) = "-", From(s, Len(Sign(s)) + 1))

\* strconv.ParseUint(s, 10, 64)
ParseUint(s) ==
    IF ~IsDigits(s) THEN NotNumber(NumError("ParseUint", s, "invalid syntax"))
    ELSE IF ~DecLe(StripZeros(s), MaxUint64)
    THEN NotNumber(NumError("ParseUint", s, "value out of range"))
    ELSE Number(FALSE, StripZeros(s))

\* the %d text of a number
Format(n) == (IF n.neg THEN "-" ELSE "") \o n.mag

IntKinds == {"int8", "int16", "int32"}
UintKinds == {"uint8", "uint16", "uint32"}
MaxOf ==
    [k \in IntKinds \cup UintKinds |->
        CASE k = "int8" -> "127" [] k = "int16" -> "32767" [] k = "int32" -> "2147483647"
          [] k = "uint8" -> "255" [] k = "uint16" -> "65535" [] k = "uint32" -> "4294967295"]
MinMagOf ==
    [k \in IntKinds |->
        CASE k = "int8" -> "128" [] k = "int16" -> "32768" [] k = "int32" -> "2147483648"]

OverflowInt_Never(kind, n) == FALSE

\* reflect.Value.OverflowInt for a destination of the kind
OverflowInt(kind, n) == ~DecLe(n.mag, IF n.neg THEN MinMagOf[kind] ELSE MaxOf[kind])

\* reflect.Value.OverflowUint(uint64(v)) for the int v: a negative v converts to
\* a uint64 of at least 2^63, beyond every kind of at most 32 bits
OverflowUint(kind, n) == n.neg \/ ~DecLe(n.mag, MaxOf[kind])

Abbrev ==
    [c \in {"K", "M", "G", "T", "P", "E"} |->
        CASE c = "K" -> "000" [] c = "M" -> "000000" [] c = "G" -> "000000000"
          [] c = "T" -> "000000000000" [] c = "P" -> "000000000000000"
          [] c = "E" -> "000000000000000000"]

iFix_NoAbbrev(t) == t

\* the switch of iFix on the last character of the comma-free text t
iFixSwitch(t) ==
    IF CharAt(t, Len(t)) \in DOMAIN Abbrev
    THEN SubSeq(t, 1, Len(t) - 1) \o Abbrev[CharAt(t, Len(t))]
    ELSE t

\* iFix(s).  (s[n] with n = -1 panics: see iFixPanics.)
iFix(s) == IF Len(s) < 2 THEN s ELSE iFixSwitch(Replace(s, ",", ""))

\* iFix indexes s[len(s)-1] after the commas are removed
iFixPanics(s) == Len(s) >= 2 /\ Replace(s, ",", "") = ""

\* a setter's result: the value of the destination, the error, a panic
Set(v, e) == [v |-> v, err |-> e, panic |-> FALSE]
SetPanic(v) == [v |-> v, err |-> nil, panic |-> TRUE]

setInt(kind, cur, n) ==
    IF ~n.ok THEN Set(cur, n.err)
    ELSE IF OverflowInt(kind, n) THEN Set(cur, "Overflow")
    ELSE Set(Format(n), nil)

set_int(kind, cur, val) ==
    IF iFixPanics(val) THEN SetPanic(cur) ELSE setInt(kind, cur, ParseInt("Atoi", iFix(val)))

setInt64(cur, n) == IF ~n.ok THEN Set(cur, n.err) ELSE Set(Format(n), nil)

set_int64(cur, val) ==
    IF iFixPanics(val) THEN SetPanic(cur) ELSE setInt64(cur, ParseInt("ParseInt", iFix(val)))

setUint(kind, cur, n) ==
    IF ~n.ok THEN Set(cur, n.err)
    ELSE IF OverflowUint(kind, n) THEN Set(cur, "Overflow")
    ELSE Set(Format(n), nil)

set_uint(kind, cur, val) ==
    IF iFixPanics(val) THEN SetPanic(cur) ELSE setUint(kind, cur, ParseInt("Atoi", iFix(val)))

set_uint64(cur, val) ==
    IF iFixPanics(val) THEN SetPanic(cur) ELSE setInt64(cur, ParseUint(iFix(val)))

setBool(cur, val) ==
    IF val \in {"true", "yes", "on", "1"} THEN TRUE
    ELSE IF val \in {"false", "no", "off", "0"} THEN FALSE
    ELSE cur

set_bool(cur, val) == setBool(cur, toLower(val))

\* setScalar(v1, val) for a destination of type t holding cur.  (The model has
\* no destination of a float or time type.)
setScalar(t, cur, val) ==
    CASE t.kind = "string" -> Set(val, nil)
      [] t.kind = "bool" -> Set(set_bool(cur, val), nil)
      [] t.kind \in IntKinds -> set_int(t.kind, cur, val)
      [] t.kind \in {"int64", "int"} -> set_int64(cur, val)
      [] t.kind \in UintKinds -> set_uint(t.kind, cur, val)
      [] t.kind \in {"uint64", "uint"} -> set_uint64(cur, val)
      [] t.kind = "struct" -> Set(cur, nil)
      [] OTHER -> Set(cur, "type " \o t.kind \o " not allowed")

\* --- destinations.  A type is [kind] for a scalar, [kind |-> "struct", fields]
\* with fields a sequence of [name, typ], or [kind |-> "map", elem]; a struct
\* value is a function of its field names, a map value a function of its keys,
\* an integer value its decimal text.

Scalar(kind) == [kind |-> kind]
StructOf(fields) == [kind |-> "struct", fields |-> fields]
MapOf(elem) == [kind |-> "map", elem |-> elem]
Field(name, typ) == [name |-> name, typ |-> typ]
NilMap == [k \in {} |-> nil]

FieldNames(t) == {t.fields[i].name : i \in DOMAIN t.fields}
FieldType(t, n) == t.fields[CHOOSE i \in DOMAIN t.fields : t.fields[i].name = n].typ

RECURSIVE Zero(_)
\* reflect.New(t).Elem(): the zero value of the type
Zero(t) ==
    CASE t.kind = "string" -> ""
      [] t.kind = "bool" -> FALSE
      [] t.kind = "struct" -> [n \in FieldNames(t) |-> Zero(FieldType(t, n))]
      [] t.kind \in {"map", "slice"} -> NilMap
      [] OTHER -> "0"

\* --- the traversal.  fm is Decoder.fieldMap as parse returned it; the isDefined
\* flags that the traversal sets are the set defined of keys.  A traversal
\* returns [v, defined, err, panic]: the destination, the flags, the error.

Found(fm, k) == [val |-> fm[k].val, no |-> fm[k].no, ok |-> TRUE, key |-> k]
NotFound == [val |-> "", no |-> 0, ok |-> FALSE, key |-> ""]

\* Decoder.getValue(k): the entry read, and its key (the entry marked defined)
getValue(fm, opts, k) ==
    IF k \in DOMAIN fm THEN Found(fm, k)
    ELSE IF isOption(ALLOW_SNAKE_CASE, opts) /\ toSnakeCase(k) \in DOMAIN fm
    THEN Found(fm, toSnakeCase(k))
    ELSE IF isOption(IGNORE_CASE, opts) /\ toLower(k) \in DOMAIN fm
    THEN Found(fm, toLower(k))
    ELSE NotFound

Traversed(v, defined, e, panic) == [v |-> v, defined |-> defined, err |-> e, panic |-> panic]

\* the default case of traverseStruct after setScalar returned r for the entry g
scalarSet(defined, g, r) ==
    Traversed(r.v, defined \cup {g.key},
              IF r.err # nil THEN newError(r.err, g.no) ELSE nil, r.panic)

\* the default case of traverseStruct, g the result of getValue(parent_key).
\* (v1.CanSet() holds for every field of a destination passed by pointer and
\* for every new map element.)
traverseScalar(t, v, defined, g) ==
    IF g.ok THEN scalarSet(defined, g, setScalar(t, v, g.val))
    ELSE Traversed(v, defined, nil, FALSE)

fieldKey(parent_key, this_key) ==
    IF parent_key # "" THEN parent_key \o "." \o this_key ELSE this_key

\* the struct acc.v after traverseStruct returned r for its field name
withField(acc, name, r) ==
    Traversed([acc.v EXCEPT ![name] = r.v], r.defined, r.err, r.panic)

\* the keys of the field map under pkey
Under(fm, pkey) == {mk \in DOMAIN fm : HasPrefix(mk, pkey \o ".")}

\* the loop of traverseScalarMap: one setScalar per key under pkey.  The keys
\* are distinct, so the order of the loop does not show in the result.
scalarMapOf(fm, t, pkey, keys) ==
    [k \in {From(mk, Len(pkey) + 2) :
                mk \in {x \in keys : setScalar(t.elem, Zero(t.elem), fm[x].val).err = nil}}
        |-> setScalar(t.elem, Zero(t.elem), fm[pkey \o "." \o k].val).v]

\* traverseScalarMap(v1, parent_key) with pkey = setKeyCase(options, parent_key)
traverseScalarMap(fm, t, pkey, defined) ==
    Traversed(scalarMapOf(fm, t, pkey, Under(fm, pkey)),
              defined \cup Under(fm, pkey), nil,
              \E mk \in Under(fm, pkey) : setScalar(t.elem, Zero(t.elem), fm[mk].val).panic)

\* the keys of the field map that name a member of an element of the map pkey
ElemKeys(fm, pkey) ==
    {mk \in Under(fm, pkey) : IndexOf(From(mk, Len(pkey) + 2), ".") > 0}

\* mapkey[l : l+i] and mapkey[0 : l+i] of traverseMap
ElemName(mk, pkey) ==
    SubSeq(mk, Len(pkey) + 2, Len(pkey) + IndexOf(From(mk, Len(pkey) + 2), "."))
ElemKey(mk, pkey) ==
    SubSeq(mk, 1, Len(pkey) + IndexOf(From(mk, Len(pkey) + 2), "."))

\* the map acc.v after traverseStruct returned r for the new element k
withElem(acc, k, r) ==
    IF r.err # nil \/ r.panic THEN Traversed(acc.v, r.defined, r.err, r.panic)
    ELSE Traversed([x \in DOMAIN acc.v \cup {k} |-> IF x = k THEN r.v ELSE acc.v[x]],
                   r.defined, nil, FALSE)

RECURSIVE traverseStruct(_, _, _, _, _, _)
RECURSIVE fieldLoop(_, _, _, _, _, _)
RECURSIVE mapLoop(_, _, _, _, _, _)

\* the loop of traverseMap over the keys todo of the field map, which Go ranges
\* over in an unspecified order: every order is possible
mapLoop(fm, opts, t, pkey, todo, acc) ==
    IF todo = {} \/ acc.err # nil \/ acc.panic THEN {acc}
    ELSE UNION {UNION {mapLoop(fm, opts, t, pkey, todo \ {mk},
                               withElem(acc, ElemName(mk, pkey), r)) :
                       r \in traverseStruct(fm, opts, t.elem, Zero(t.elem),
                                            ElemKey(mk, pkey), acc.defined)} :
                mk \in todo}

\* traverseMap(v1, parent_key)
traverseMap(fm, opts, t, parent_key, defined) ==
    IF t.elem.kind # "struct"
    THEN {traverseScalarMap(fm, t, setKeyCase(opts, parent_key), defined)}
    ELSE mapLoop(fm, opts, t, setKeyCase(opts, parent_key),
                 ElemKeys(fm, setKeyCase(opts, parent_key)),
                 Traversed(NilMap, defined, nil, FALSE))

\* the loop of iterateStructFields from field i on
fieldLoop(fm, opts, t, parent_key, i, acc) ==
    IF i > Len(t.fields) \/ acc.err # nil \/ acc.panic THEN {acc}
    ELSE IF ~isPublic(t.fields[i].name)
    THEN fieldLoop(fm, opts, t, parent_key, i + 1, acc)
    ELSE UNION {fieldLoop(fm, opts, t, parent_key, i + 1,
                          withField(acc, t.fields[i].name, r)) :
                r \in traverseStruct(fm, opts, t.fields[i].typ, acc.v[t.fields[i].name],
                                     fieldKey(parent_key, t.fields[i].name),
                                     acc.defined)}

\* iterateStructFields(v1, parent_key)
iterateStructFields(fm, opts, t, v, parent_key, defined) ==
    fieldLoop(fm, opts, t, parent_key, 1, Traversed(v, defined, nil, FALSE))

\* traverseStruct(v1, parent_key) for v1 of type t holding v: the set of results
traverseStruct(fm, opts, t, v, parent_key, defined) ==
    CASE t.kind = "slice" ->
            {Traversed(v, defined, parent_key \o " type slice not allowed", FALSE)}
      [] t.kind = "struct" -> iterateStructFields(fm, opts, t, v, parent_key, defined)
      [] t.kind = "map" -> traverseMap(fm, opts, t, parent_key, defined)
      [] OTHER -> {traverseScalar(t, v, defined, getValue(fm, opts, parent_key))}

\* the orders in which a loop can range over the set S
Orders(S) ==
    {f \in [1..Cardinality(S) -> S] : \A i, j \in 1..Cardinality(S) : f[i] = f[j] => i = j}

ExtraField(fm, k) == "Extra field (" \o k \o ") at line " \o Itoa(fm[k].no)

\* the messages findExtraFields can build for the entries extra
extraErrors(fm, extra) ==
    {JoinLf([i \in 1..Cardinality(extra) |-> ExtraField(fm, f[i])]) : f \in Orders(extra)}

\* findExtraFields(): the errors it can return (one per order of the loop)
findExtraFields(fm, defined) == extraErrors(fm, {k \in DOMAIN fm : k \notin defined})

\* decode() after traverseStruct returned x
traversed(fm, x) ==
    IF x.err # nil \/ x.panic THEN {x}
    ELSE {Traversed(x.v, x.defined, e, FALSE) : e \in findExtraFields(fm, x.defined)}

\* the loop of decode() for a map destination: a key is set when setScalar
\* returns no error, and nothing is returned for the others
decodeMap(fm, t, v) ==
    Traversed([k \in DOMAIN v \cup {x \in DOMAIN fm :
                                       setScalar(t.elem, Zero(t.elem), fm[x].val).err = nil}
                  |-> IF k \in DOMAIN fm
                         /\ setScalar(t.elem, Zero(t.elem), fm[k].val).err = nil
                      THEN setScalar(t.elem, Zero(t.elem), fm[k].val).v
                      ELSE v[k]],
              DOMAIN fm, nil,
              \E k \in DOMAIN fm : setScalar(t.elem, Zero(t.elem), fm[k].val).panic)

\* a decode() that goes on after a parse error
decode_IgnoreParseError(t, v, opts, r) ==
    IF r.st.panic THEN {Traversed(v, {}, nil, TRUE)}
    ELSE IF t.kind = "map" THEN {decodeMap(r.vmap, t, v)}
    ELSE UNION {traversed(r.vmap, x) : x \in traverseStruct(r.vmap, opts, t, v, "", {})}

\* decode() after parse returned r, for the destination v of type t
decode(t, v, opts, r) ==
    IF r.st.panic THEN {Traversed(v, {}, nil, TRUE)}
    ELSE IF r.err # nil THEN {Traversed(v, {}, r.err, FALSE)}
    ELSE IF t.kind = "map" THEN {decodeMap(r.vmap, t, v)}
    ELSE UNION {traversed(r.vmap, x) : x \in traverseStruct(r.vmap, opts, t, v, "", {})}

\* NewDecoder(x, options): a map destination returns before the options are set
NewDecoder(t, v, opts) ==
    [options |-> IF t.kind = "map" THEN 0 ELSE opts, typ |-> t, v |-> v, defined |-> {}]

\* the program after decode() returned x for the parse result r of doc
decoded(o, doc, r, x) ==
    /\ src' = doc
    /\ calls' = calls + 1
    /\ options' = 0
    /\ lineno' = r.st.lineno
    /\ errs' = r.st.errs
    /\ include' = r.st.include
    /\ vmap' = r.vmap
    /\ err' = x.err
    /\ panicked' = x.panic
    /\ decoder' = [o EXCEPT !.v = x.v, !.defined = x.defined]
    /\ UNCHANGED <<smap, files, encoder, callstack>>

decoding(o, doc, r) == \E x \in decode(o.typ, o.v, o.options, r) : decoded(o, doc, r, x)

\* Decode(x, doc, opts): NewDecoder(x, opts).DecodeString(doc), which parses doc
\* with a new Parser; v is the value x points to, t its type
Decode(t, v, opts, doc) ==
    /\ ~panicked
    /\ calls = 0
    /\ t.kind = "map" \/ allowedDecoderOption(opts)
    /\ decoding(NewDecoder(t, v, opts), doc, parse(doc, NewState))

\* ------------------------------------------------ extra fields (struct decode)

\* struct { Pub string; priv string; Sub struct { A string; b string };
\*          M map[string]string }
ExtraType ==
    StructOf(<<Field("Pub", Scalar("string")), Field("priv", Scalar("string")),
               Field("Sub", StructOf(<<Field("A", Scalar("string")),
                                       Field("b", Scalar("string"))>>)),
               Field("M", MapOf(Scalar("string")))>>)

\* the destination before the call
ExtraDest == [Pub |-> "p0", priv |-> "q0", Sub |-> [A |-> "a0", b |-> "b0"], M |-> NilMap]

ExtraLines == {"Pub=1", "priv=2", "Sub.A=3", "Sub.b=4", "M.k=5", "X=6", "Sub=7"}
MaxExtraLines == 3

NextExtra ==
    \E doc \in Docs(ExtraLines, MaxExtraLines) : Decode(ExtraType, ExtraDest, 0, doc)

SpecExtra == Init /\ [][NextExtra]_vars

\* the entries of ExtraLines that name a visible field of ExtraType
ReadKeys == {"Pub", "Sub.A", "M.k"}

\* the entries of the document that are not read for a visible field
ExtraKeys == DOMAIN vmap \ ReadKeys

\* C14: after a struct decode of a document without parse or coercion error,
\* Decode returns an error iff some entry was not read for a visible field; the
\* error is one 'Extra field (<path>) at line <n>' line for each such entry
\* (entries naming unexported fields included), the unexported fields keep their
\* values, and the matched exported fields are assigned.
C14_ExtraFields ==
    (calls = 1 /\ decoder.typ = ExtraType /\ errs = << >>) =>
        /\ err # nil <=> ExtraKeys # {}
        /\ err \in extraErrors(vmap, ExtraKeys)
        /\ decoder.v.priv = ExtraDest.priv
        /\ decoder.v.Sub.b = ExtraDest.Sub.b
        /\ "Pub" \in DOMAIN vmap => decoder.v.Pub = vmap["Pub"].val
        /\ "Sub.A" \in DOMAIN vmap => decoder.v.Sub.A = vmap["Sub.A"].val
        /\ "M.k" \in DOMAIN vmap => decoder.v.M = [k \in {"k"} |-> vmap["M.k"].val]

C14_Witness ==
    /\ calls = 1
    /\ decoder.typ = ExtraType
    /\ src = <<"Pub=1", "priv=2", "Sub.b=4">>
    /\ err \in {"Extra field (priv) at line 2" \o lf \o "Extra field (Sub.b) at line 3",
                "Extra field (Sub.b) at line 3" \o lf \o "Extra field (priv) at line 2"}
    /\ decoder.v.Pub = "1"

\* ------------------------------------------------ key forms (struct decode)

\* struct { MyKey string; Sub struct { A string }; MyMap map[string]string }
CaseType ==
    StructOf(<<Field("MyKey", Scalar("string")),
               Field("Sub", StructOf(<<Field("A", Scalar("string"))>>)),
               Field("MyMap", MapOf(Scalar("string")))>>)

CaseDest == Zero(CaseType)

CaseLines == {"MyKey=1", "my_key=2", "mykey=3", "Sub.A=4", "sub.a=5",
              "MyMap.a=6", "my_map.a=7", "mymap.a=8"}
MaxCaseLines == 3
CaseOptions == {0, ALLOW_SNAKE_CASE, IGNORE_CASE, ALLOW_SNAKE_CASE + IGNORE_CASE}

NextCase ==
    \E doc \in Docs(CaseLines, MaxCaseLines), opts \in CaseOptions :
        Decode(CaseType, CaseDest, opts, doc)

SpecCase == Init /\ [][NextCase]_vars

\* the entry the claim reads for a field: the exact key if the document has it,
\* else the snake_case key (ALLOW_SNAKE_CASE), else the lower-case key
\* (IGNORE_CASE); "" when none
KeyRead(exact, snake, low) ==
    IF exact \in DOMAIN vmap THEN exact
    ELSE IF isOption(ALLOW_SNAKE_CASE, decoder.options) /\ snake \in DOMAIN vmap THEN snake
    ELSE IF isOption(IGNORE_CASE, decoder.options) /\ low \in DOMAIN vmap THEN low
    ELSE ""

\* the value a string field holds after the decode when it reads the entry k
ValueRead(k) == IF k = "" THEN "" ELSE vmap[k].val

\* C15: with ALLOW_SNAKE_CASE or IGNORE_CASE the exact field name is tried first
\* for a scalar field, a member of a struct field and a map field; the
\* snake_case and lower-case forms are read only when no exact key exists.
C15_ExactNameFirst ==
    (calls = 1 /\ decoder.typ = CaseType /\ errs = << >>) =>
        /\ decoder.v.MyKey = ValueRead(KeyRead("MyKey", "my_key", "mykey"))
        /\ decoder.v.Sub.A = ValueRead(KeyRead("Sub.A", "sub.a", "sub.a"))
        /\ KeyRead("MyMap.a", "my_map.a", "mymap.a") # "" =>
              /\ "a" \in DOMAIN decoder.v.MyMap
              /\ decoder.v.MyMap["a"] = ValueRead(KeyRead("MyMap.a", "my_map.a", "mymap.a"))

\* ------------------------------------------------ coercion errors

\* struct { A int8; B int8; S string }
CoerceType ==
    StructOf(<<Field("A", Scalar("int8")), Field("B", Scalar("int8")),
               Field("S", Scalar("string"))>>)

CoerceDest == Zero(CoerceType)

CoerceLines == {"A=1", "A=x", "A=128", "B=2", "B=y", "S=s"}
MaxCoerceLines == 3

NextCoerce ==
    \E doc \in Docs(CoerceLines, MaxCoerceLines) : Decode(CoerceType, CoerceDest, 0, doc)

SpecCoerce == Init /\ [][NextCoerce]_vars

\* the values of CoerceLines that are no int8
NotInt8 == {"x", "y", "128"}

\* the text p occurs in s
Contains(s, p) == \E i \in 1..(Len(s) - Len(p) + 1) : SubSeq(s, i, i + Len(p) - 1) = p

\* C16: one Decode reports every value that cannot be coerced to its
\* destination kind, each with its line, not only the first.
C16_CoercionErrorsAccumulate ==
    (calls = 1 /\ decoder.typ = CoerceType /\ errs = << >>) =>
        \A k \in DOMAIN vmap \cap {"A", "B"} :
            vmap[k].val \in NotInt8 => Contains(err, " at line " \o Itoa(vmap[k].no))

\* ------------------------------------------------ integer destinations

NumKinds == {"int8", "int16", "int32", "int64", "int",
             "uint8", "uint16", "uint32", "uint64", "uint"}

\* the field of NumType of a kind: Int8 for int8, ...
NumField ==
    [k \in NumKinds |->
        CASE k = "int8" -> "Int8" [] k = "int16" -> "Int16" [] k = "int32" -> "Int32"
          [] k = "int64" -> "Int64" [] k = "int" -> "Int"
          [] k = "uint8" -> "Uint8" [] k = "uint16" -> "Uint16" [] k = "uint32" -> "Uint32"
          [] k = "uint64" -> "Uint64" [] k = "uint" -> "Uint"]

\* struct { Int8 int8; Int16 int16; Int32 int32; Int64 int64; Int int;
\*          Uint8 uint8; Uint16 uint16; Uint32 uint32; Uint64 uint64; Uint uint }
NumType ==
    StructOf(<<Field("Int8", Scalar("int8")), Field("Int16", Scalar("int16")),
               Field("Int32", Scalar("int32")), Field("Int64", Scalar("int64")),
               Field("Int", Scalar("int")),
               Field("Uint8", Scalar("uint8")), Field("Uint16", Scalar("uint16")),
               Field("Uint32", Scalar("uint32")), Field("Uint64", Scalar("uint64")),
               Field("Uint", Scalar("uint"))>>)

\* the destination before the call: every field holds 7
NumDest == [n \in FieldNames(NumType) |-> "7"]

Prefixes == {"0", "1", "3", "4", "9", "18", "92", "127", "2,048", "0,5"}
Suffixes == {"", "K", "M", "G", "T", "P", "E"}

NextAbbrev ==
    \E k \in NumKinds, p \in Prefixes, x \in Suffixes :
        Decode(NumType, NumDest, 0, <<NumField[k] \o "=" \o p \o x>>)

SpecAbbrev == Init /\ [][NextAbbrev]_vars

\* the largest value of a kind, as decimal text
LargestOf(kind) ==
    IF kind \in IntKinds \cup UintKinds THEN MaxOf[kind]
    ELSE IF kind \in {"int64", "int"} THEN MaxInt64
    ELSE MaxUint64

\* the abbreviation letter of a value ("" if none) and the text before it
LetterOf(val) == IF CharAt(val, Len(val)) \in Suffixes THEN CharAt(val, Len(val)) ELSE ""
BeforeLetter(val) == SubSeq(val, 1, Len(val) - Len(LetterOf(val)))

RECURSIVE WithoutCommas(_)
WithoutCommas(s) ==
    IF s = "" THEN ""
    ELSE IF CharAt(s, 1) = "," THEN WithoutCommas(From(s, 2))
    ELSE CharAt(s, 1) \o WithoutCommas(From(s, 2))

\* the power of ten an abbreviation letter stands for
PowerOf(letter) ==
    CASE letter = "" -> 0 [] letter = "K" -> 3 [] letter = "M" -> 6 [] letter = "G" -> 9
      [] letter = "T" -> 12 [] letter = "P" -> 15 [] letter = "E" -> 18

RECURSIVE TimesPow10(_, _)
\* the decimal text of d * 10^n, for the decimal text d without leading zeros
TimesPow10(d, n) == IF n = 0 \/ d = "0" THEN d ELSE TimesPow10(d \o "0", n - 1)

\* the decimal text of the number the value stands for
Product(val) == TimesPow10(StripZeros(WithoutCommas(BeforeLetter(val))), PowerOf(LetterOf(val)))

RECURSIVE ToNat(_)
\* the number a decimal text of at most 9 digits stands for
ToNat(d) ==
    IF d = "" THEN 0
    ELSE 10 * ToNat(SubSeq(d, 1, Len(d) - 1)) + (IndexOf(DigitChars, CharAt(d, Len(d))) - 1)

RECURSIVE Pow10(_)
Pow10(n) == IF n = 0 THEN 1 ELSE 10 * Pow10(n - 1)

\* the value is decimal digits with grouping commas and an optional letter
IsAbbreviated(val) ==
    /\ AllIn(BeforeLetter(val), DigitChars \o ",")
    /\ WithoutCommas(BeforeLetter(val)) # ""

\* C17: in an integer destination a value of digits, grouping commas and an
\* optional final K, M, G, T, P or E decodes to the comma-free prefix times 10^3,
\* 10^6, 10^9, 10^12, 10^15 or 10^18, whenever the product fits the destination.
C17_Abbreviations ==
    (calls = 1 /\ decoder.typ = NumType) =>
        \A k \in NumKinds :
            (/\ NumField[k] \in DOMAIN vmap
             /\ IsAbbreviated(vmap[NumField[k]].val)
             /\ DecLe(Product(vmap[NumField[k]].val), LargestOf(k))) =>
                /\ err = nil
                /\ decoder.v[NumField[k]] = Product(vmap[NumField[k]].val)
                /\ Len(WithoutCommas(BeforeLetter(vmap[NumField[k]].val)))
                      + PowerOf(LetterOf(vmap[NumField[k]].val)) <= 9 =>
                      ToNat(decoder.v[NumField[k]]) =
                          ToNat(WithoutCommas(BeforeLetter(vmap[NumField[k]].val)))
                              * Pow10(PowerOf(LetterOf(vmap[NumField[k]].val)))

C17_Witness ==
    /\ calls = 1
    /\ decoder.typ = NumType
    /\ src = <<"Int32=2,048M">>
    /\ err = nil
    /\ decoder.v.Int32 = "2048000000"

\* ------------------------------------------------ narrow integer destinations

NarrowKinds == IntKinds \cup UintKinds

OverflowValues ==
    {"0", "-0", "+5", "-1", "127", "128", "-128", "-129", "255", "256",
     "32767", "32768", "-32768", "-32769", "65535", "65536", "65,535",
     "2147483647", "2147483648", "-2147483648", "-2147483649",
     "4294967295", "4294967296", "4G", "-1K", "1K", "92E", "18E",
     "9223372036854775808", "18446744073709551616"}

NextOverflow ==
    \E k \in NarrowKinds, val \in OverflowValues :
        Decode(NumType, NumDest, 0, <<NumField[k] \o "=" \o val>>)

SpecOverflow == Init /\ [][NextOverflow]_vars

\* a value with a sign: the sign and the text after it
Negative(val) == CharAt(val, 1) = "-"
Unsigned(val) == IF CharAt(val, 1) \in {"+", "-"} THEN From(val, 2) ELSE val

\* the value is an integer: a sign, digits with commas, an abbreviation letter
IsInteger(val) == Unsigned(val) # "" /\ IsAbbreviated(Unsigned(val))

\* the integer lies in the range of the kind
InRange(kind, val) ==
    IF Negative(val) /\ Product(Unsigned(val)) # "0"
    THEN kind \in IntKinds /\ DecLe(Product(Unsigned(val)), MinMagOf[kind])
    ELSE DecLe(Product(Unsigned(val)), MaxOf[kind])

\* the decimal text of the integer
IntegerText(val) ==
    IF Negative(val) /\ Product(Unsigned(val)) # "0"
    THEN "-" \o Product(Unsigned(val))
    ELSE Product(Unsigned(val))

\* C18: decoding an integer into an 8-, 16- or 32-bit signed or unsigned field
\* succeeds iff the value (commas removed, abbreviation expanded) lies in the
\* range of the kind; otherwise (a negative value for an unsigned field
\* included) Decode returns an error and the field keeps its value.
C18_NarrowOverflow ==
    (calls = 1 /\ decoder.typ = NumType) =>
        \A k \in NarrowKinds :
            (NumField[k] \in DOMAIN vmap /\ IsInteger(vmap[NumField[k]].val)) =>
                IF InRange(k, vmap[NumField[k]].val)
                THEN /\ err = nil
                     /\ decoder.v[NumField[k]] = IntegerText(vmap[NumField[k]].val)
                ELSE /\ err # nil
                     /\ decoder.v[NumField[k]] = NumDest[NumField[k]]

C18_Witness ==
    /\ calls = 1
    /\ decoder.typ = NumType
    /\ src = <<"Int8=128">>
    /\ err = "Overflow at line 1"
    /\ decoder.v.Int8 = "7"

\* ---------------------------------------------------------------- Encoder

multi_line_width == 80

\* Encoder.allowedOption
allowedEncoderOption(option) ==
    option = BitAnd(option, ENCODE_ZERO_VALUES + ENCODE_LOWER_CASE + ENCODE_SNAKE_CASE
                            + OVERWRITE_FILE)

\* the Encoder while it writes: the text written, previous_key, errs
NewOut == [out |-> "", previous_key |-> "", errs |-> << >>]

RECURSIVE Indent(_)
\* the indent of Encoder.write: two spaces per level above 1
Indent(depth) == IF depth > 1 THEN "  " \o Indent(depth - 1) ELSE ""

\* Encoder.write(depth, s) (the writer is a bytes.Buffer: Write returns no error)
write(e, depth, s) == [e EXCEPT !.out = @ \o Indent(depth) \o s]

\* Encoder.write_kv(depth, key, v)
write_kv(e, opts, depth, key, v) ==
    write(e, depth, setKeyCase(opts, key) \o " = " \o v \o lf)

\* Encoder.appendErr
encoderError(e, msg) == [e EXCEPT !.errs = Append(@, msg)]

RECURSIVE QuoteBody(_)
\* strconv.QuoteToASCII(s) without the quotes, for s of printable ASCII
\* characters, newlines and tabs
QuoteBody(s) ==
    IF s = "" THEN ""
    ELSE (CASE CharAt(s, 1) = qt -> bs \o qt
            [] CharAt(s, 1) = bs -> bs \o bs
            [] CharAt(s, 1) = lf -> bs \o "n"
            [] CharAt(s, 1) = "\t" -> bs \o "t"
            [] OTHER -> CharAt(s, 1)) \o QuoteBody(From(s, 2))

QuoteToASCII(s) == qt \o QuoteBody(s) \o qt

quote(s) ==
    IF Len(s) = 0 THEN ""
    ELSE IF QuoteBody(s) # s THEN QuoteToASCII(s)
    ELSE IF CharAt(s, 1) = " " \/ CharAt(s, Len(s)) = " " THEN QuoteToASCII(s)
    ELSE s

RECURSIVE LastIndexOf(_, _)
\* 1-based position of the last occurrence of character c in s, 0 if none
LastIndexOf(s, c) ==
    IF s = "" THEN 0
    ELSE IF CharAt(s, Len(s)) = c THEN Len(s)
    ELSE LastIndexOf(SubSeq(s, 1, Len(s) - 1), c)

RECURSIVE nextSpace(_, _)
\* the inner loop of encodeMultiline: n moves on to the next space or the end
nextSpace(str, n) ==
    IF n < Len(str) /\ CharAt(str, n + 1) # " " THEN nextSpace(str, n + 1) ELSE n

\* where the piece that starts at i ends, x the last space of str[i:n] (0: none)
breakAt(str, i, n, x) == IF x > 0 THEN nextSpace(str, i + x) ELSE n

RECURSIVE multilineLoop(_, _, _)
multilinePiece(str, i, width, n) ==
    <<quote(SubSeq(str, i + 1, n))>> \o multilineLoop(str, n, width)

\* the loop of encodeMultiline from the offset i on: the quoted pieces
multilineLoop(str, i, width) ==
    IF i + width >= Len(str) THEN <<quote(From(str, i + 1))>>
    ELSE multilinePiece(str, i, width,
                        breakAt(str, i, i + width,
                                LastIndexOf(SubSeq(str, i + 1, i + width), " ")))

RECURSIVE Join(_, _)
\* strings.Join
Join(ar, sep) ==
    IF ar = << >> THEN ""
    ELSE IF Len(ar) = 1 THEN Head(ar)
    ELSE Head(ar) \o sep \o Join(Tail(ar), sep)

RECURSIVE Repeat(_, _)
\* strings.Repeat
Repeat(x, n) == IF n <= 0 THEN "" ELSE x \o Repeat(x, n - 1)

encodeMultiline(parent_key, str) ==
    Join(multilineLoop(str, 0, multi_line_width - (Len(parent_key) + 3)),
         bs \o lf \o Repeat(" ", Len(parent_key) + 3))

RECURSIVE Split(_, _)
\* strings.Split(s, sep) for a separator of one character
Split(s, sep) ==
    IF IndexOf(s, sep) = 0 THEN <<s>>
    ELSE <<SubSeq(s, 1, IndexOf(s, sep) - 1)>> \o Split(From(s, IndexOf(s, sep) + 1), sep)

needs_heredoc(str) == Len(Split(str, lf)) - 1 > 3

RECURSIVE heredocBody(_)
heredocBody(heredoc) ==
    IF heredoc = << >> THEN "" ELSE Head(heredoc) \o lf \o heredocBody(Tail(heredoc))

\* output_heredoc(str), code the upper-case text made of time.Now()
output_heredoc(str, code) == "<<" \o code \o lf \o heredocBody(Split(str, lf)) \o code

\* the text encodeString makes of str before it tests it for ""
stringText(parent_key, str, code) ==
    IF Len(str) > 50
    THEN IF needs_heredoc(str) THEN output_heredoc(str, code)
         ELSE encodeMultiline(parent_key, str)
    ELSE quote(str)

writeString_NoZero(e, opts, depth, parent_key, str) ==
    IF str = "" THEN e ELSE write_kv(e, opts, depth, parent_key, str)

\* encodeString from the test of str == "" on
writeString(e, opts, depth, parent_key, str) ==
    IF str = ""
    THEN IF isOption(ENCODE_ZERO_VALUES, opts)
         THEN write_kv(e, opts, depth, parent_key, qt \o qt)
         ELSE e
    ELSE write_kv(e, opts, depth, parent_key, str)

encodeString(e, opts, v, depth, parent_key, code) ==
    writeString(e, opts, depth, parent_key, stringText(parent_key, v, code))

isZero(t, v) == v = Zero(t)

RECURSIVE isZeroStruct(_, _)
\* isZeroStruct(v).  (A map without keys stands for the nil map.)
isZeroStruct(t, v) ==
    CASE t.kind \in {"map", "slice"} -> DOMAIN v = {}
      [] t.kind = "struct" ->
            \A i \in DOMAIN t.fields :
                isPublic(t.fields[i].name) =>
                    isZeroStruct(t.fields[i].typ, v[t.fields[i].name])
      [] OTHER -> isZero(t, v)

EncodableKinds == {"string", "bool"} \cup NumKinds

\* encodeScalar(v1, depth, parent_key) for a kind it encodes.  (The model has
\* no value of a float type.)
encodeScalar(e, opts, t, v, depth, parent_key, code) ==
    CASE t.kind = "string" -> encodeString(e, opts, v, depth, parent_key, code)
      [] t.kind = "bool" ->
            IF ~isOption(ENCODE_ZERO_VALUES, opts) /\ ~v THEN e
            ELSE write_kv(e, opts, depth, parent_key, IF v THEN "True" ELSE "False")
      [] OTHER ->
            IF ~isOption(ENCODE_ZERO_VALUES, opts) /\ isZero(t, v) THEN e
            ELSE write_kv(e, opts, depth, parent_key, v)

\* the characters of keys in byte order
Ascii == " -." \o DigitChars \o UpperChars \o "_" \o LowerChars

\* position of the character c in byte order, 0 for any other character
Ord(c) ==
    IF \E i \in 1..Len(Ascii) : CharAt(Ascii, i) = c
    THEN CHOOSE i \in 1..Len(Ascii) : CharAt(Ascii, i) = c
    ELSE 0

RECURSIVE StrLess(_, _)
\* a < b in byte order
StrLess(a, b) ==
    IF a = "" THEN b # ""
    ELSE IF b = "" THEN FALSE
    ELSE IF CharAt(a, 1) = CharAt(b, 1) THEN StrLess(From(a, 2), From(b, 2))
    ELSE Ord(CharAt(a, 1)) < Ord(CharAt(b, 1))

RECURSIVE SortStrings(_)
sortedFrom(S, least) == <<least>> \o SortStrings(S \ {least})

\* sort.Strings of the keys S
SortStrings(S) ==
    IF S = {} THEN << >>
    ELSE sortedFrom(S, CHOOSE x \in S : \A y \in S : x = y \/ StrLess(x, y))

\* the locals of encodeStruct and encodeMap, and the Encoder
Locals(e, last_parent, open__brace) ==
    [e |-> e, last_parent |-> last_parent, open__brace |-> open__brace]

\* if parent_key != o.previous_key && last_parent != parent_key { ... "{" ... }
openBrace(acc, opts, depth, parent_key) ==
    IF parent_key # acc.e.previous_key /\ acc.last_parent # parent_key
    THEN Locals(write_kv([acc.e EXCEPT !.previous_key = parent_key], opts, depth,
                         parent_key, "{"),
                parent_key, TRUE)
    ELSE acc

\* if open__brace && parent_key != "" { o.write(depth, "}\n") }
closeBrace(acc, depth, parent_key) ==
    IF acc.open__brace /\ parent_key # "" THEN write(acc.e, depth, "}" \o lf) ELSE acc.e

\* the element of the one-element set S.  (The loops below write the Encoder
\* after a member as the element of a set, so that it is a value before the
\* loop goes on.)
The(S) == CHOOSE x \in S : TRUE

RECURSIVE encodeTraverseStruct(_, _, _, _, _, _, _)
RECURSIVE encodeStructLoop(_, _, _, _, _, _, _, _)
RECURSIVE encodeMapLoop(_, _, _, _, _, _, _, _)

\* the body of the loop of encodeStruct for the public field i, acc after the
\* brace is written
encodeField(acc, opts, t, v, depth, parent_key, i, code) ==
    The({encodeStructLoop(Locals(e, acc.last_parent, acc.open__brace),
                          opts, t, v, depth, parent_key, i + 1, code) :
            e \in {encodeTraverseStruct(acc.e, opts, t.fields[i].typ, v[t.fields[i].name],
                                        depth + 1, t.fields[i].name, code)}})

\* the loop of encodeStruct from field i on, and what follows the loop
encodeStructLoop(acc, opts, t, v, depth, parent_key, i, code) ==
    IF i > Len(t.fields) THEN closeBrace(acc, depth, parent_key)
    ELSE IF ~isPublic(t.fields[i].name)
    THEN encodeStructLoop(acc, opts, t, v, depth, parent_key, i + 1, code)
    ELSE IF parent_key = ""
    THEN encodeField(acc, opts, t, v, depth, parent_key, i, code)
    ELSE IF ~isOption(ENCODE_ZERO_VALUES, opts) /\ isZeroStruct(t, v)
    THEN encodeStructLoop(acc, opts, t, v, depth, parent_key, i + 1, code)
    ELSE encodeField(openBrace(acc, opts, depth, parent_key), opts, t, v, depth,
                     parent_key, i, code)

encodeStruct(e, opts, t, v, depth, parent_key, code) ==
    encodeStructLoop(Locals(e, "", FALSE), opts, t, v, depth, parent_key, 1, code)

\* the body of the loop of encodeMap for the key Head(sorted), acc after the
\* brace is written
encodeElem(acc, opts, t, v, depth, parent_key, sorted, code) ==
    The({encodeMapLoop(Locals(e, acc.last_parent, acc.open__brace),
                       opts, t, v, depth, parent_key, Tail(sorted), code) :
            e \in {encodeTraverseStruct(acc.e, opts, t.elem, v[Head(sorted)], depth + 1,
                                        Head(sorted), code)}})

\* the loop of encodeMap over the keys sorted, and what follows the loop
encodeMapLoop(acc, opts, t, v, depth, parent_key, sorted, code) ==
    IF sorted = << >> THEN closeBrace(acc, depth, parent_key)
    ELSE IF isOption(ENCODE_ZERO_VALUES, opts) /\ isZeroStruct(t, v)
    THEN encodeMapLoop(acc, opts, t, v, depth, parent_key, Tail(sorted), code)
    ELSE encodeElem(openBrace(acc, opts, depth, parent_key), opts, t, v, depth,
                    parent_key, sorted, code)

encodeMap(e, opts, t, v, depth, parent_key, code) ==
    encodeMapLoop(Locals(e, "", FALSE), opts, t, v, depth, parent_key,
                  SortStrings(DOMAIN v), code)

\* encodeTraverseStruct(v1, depth, parent_key): the Encoder after it.  (The
\* model has no value of a time type.)
encodeTraverseStruct(e, opts, t, v, depth, parent_key, code) ==
    CASE t.kind = "map" -> encodeMap(e, opts, t, v, depth, parent_key, code)
      [] t.kind = "struct" -> encodeStruct(e, opts, t, v, depth, parent_key, code)
      [] t.kind \in EncodableKinds -> encodeScalar(e, opts, t, v, depth, parent_key, code)
      [] OTHER -> encoderError(e, "Cannot encode type (" \o t.kind \o ")")

\* the Encoder after Encode wrote e
encoded(t, v, opts, e) ==
    [options |-> opts, typ |-> t, v |-> v, out |-> e.out, err |-> getErrors(e.errs)]

\* Encode(x, opts) for the value v of type t; code is the heredoc code, made of
\* the time of the call
Encode(t, v, opts, code) ==
    /\ ~panicked
    /\ calls = 0
    /\ encoder.typ = NoEncoder.typ
    /\ allowedEncoderOption(opts)
    /\ encoder' = encoded(t, v, opts, encodeTraverseStruct(NewOut, opts, t, v, 0, "", code))
    /\ UNCHANGED <<lineno, options, errs, include, src, vmap, smap, err, calls, panicked,
                   files, decoder, callstack>>

RECURSIVE ReadLines(_)
\* the physical lines a reader of the text returns
ReadLines(text) ==
    IF text = "" THEN << >>
    ELSE IF IndexOf(text, lf) = 0 THEN <<text>>
    ELSE <<SubSeq(text, 1, IndexOf(text, lf) - 1)>> \o ReadLines(From(text, IndexOf(text, lf) + 1))

\* Decode(&y, text) for the text of the last Encode and a new y of the same type
DecodeEncoded ==
    /\ encoder.typ # NoEncoder.typ
    /\ Decode(encoder.typ, Zero(encoder.typ), 0, ReadLines(encoder.out))

\* ------------------------------------------------ Encode, then Decode

\* struct { S string; N int8; B bool; Sub struct { X string }; M map[string]string }
RoundType ==
    StructOf(<<Field("S", Scalar("string")), Field("N", Scalar("int8")),
               Field("B", Scalar("bool")),
               Field("Sub", StructOf(<<Field("X", Scalar("string"))>>)),
               Field("M", MapOf(Scalar("string")))>>)

RoundStrings == {"", "a", "a b", " a", "a#b", "say " \o qt \o "hi" \o qt}

\* the values of RoundType that are encoded
RoundValues ==
    {[S |-> s, N |-> n, B |-> b, Sub |-> [X |-> x], M |-> m] :
        s \in RoundStrings, n \in {"0", "5", "-3"}, b \in BOOLEAN, x \in {"", "x"},
        m \in {NilMap, [k \in {"k"} |-> "v"]}}

\* the heredoc code of a call of Encode
HeredocCode == "__5F5E100__"

NextRound ==
    \/ \E v \in RoundValues : Encode(RoundType, v, 0, HeredocCode)
    \/ DecodeEncoded

SpecRound == Init /\ [][NextRound]_vars

\* C19: Encode followed by Decode is a round trip: decoding the text of Encode
\* into a new destination of the same type returns no error and yields the
\* encoded value, and encoding that value gives the same text.
C19_RoundTrip ==
    (calls = 1 /\ encoder.typ = RoundType /\ decoder.typ = RoundType) =>
        /\ err = nil
        /\ decoder.v = encoder.v
        /\ encodeTraverseStruct(NewOut, 0, RoundType, decoder.v, 0, "", HeredocCode).out
               = encoder.out

\* ------------------------------------------------ zero values (Encode)

\* struct { S string; N int8; U uint8; B bool; Sub struct { X string; Y int8 };
\*          M map[string]int8; priv string }
ZeroType ==
    StructOf(<<Field("S", Scalar("string")), Field("N", Scalar("int8")),
               Field("U", Scalar("uint8")), Field("B", Scalar("bool")),
               Field("Sub", StructOf(<<Field("X", Scalar("string")),
                                       Field("Y", Scalar("int8"))>>)),
               Field("M", MapOf(Scalar("int8"))),
               Field("priv", Scalar("string"))>>)

\* the values of ZeroType that are encoded
ZeroValues ==
    {[S |-> s, N |-> n, U |-> u, B |-> b, Sub |-> [X |-> x, Y |-> y], M |-> m, priv |-> "p"] :
        s \in {"", "a"}, n \in {"0", "5"}, u \in {"0", "7"}, b \in BOOLEAN,
        x \in {"", "x"}, y \in {"0", "1"},
        m \in {NilMap, [k \in {"k"} |-> "0"], [k \in {"k"} |-> "2"],
               [k \in {"j", "k"} |-> IF k = "j" THEN "0" ELSE "2"]}}

NextZero ==
    \E v \in ZeroValues, opts \in {0, ENCODE_ZERO_VALUES} :
        Encode(ZeroType, v, opts, HeredocCode)

SpecZero == Init /\ [][NextZero]_vars

\* the lines of the encoded text, without their indent
EncodedLines == {ltrim(l) : l \in Range(ReadLines(encoder.out))}

\* the encoded text has a line for the key
HasKey(key) == \E l \in EncodedLines : HasPrefix(l, key \o " = ")

\* the exported scalars of the encoded value: key, value, zero value, text
ScalarsOf(v) ==
    {[key |-> "S", zero |-> v.S = "", text |-> IF v.S = "" THEN qt \o qt ELSE v.S],
     [key |-> "N", zero |-> v.N = "0", text |-> v.N],
     [key |-> "U", zero |-> v.U = "0", text |-> v.U],
     [key |-> "B", zero |-> ~v.B, text |-> IF v.B THEN "True" ELSE "False"],
     [key |-> "X", zero |-> v.Sub.X = "", text |-> IF v.Sub.X = "" THEN qt \o qt ELSE v.Sub.X],
     [key |-> "Y", zero |-> v.Sub.Y = "0", text |-> v.Sub.Y]}

\* C20: without ENCODE_ZERO_VALUES Encode writes no line for a struct field or
\* map element that is numeric zero, false or the empty string; with
\* ENCODE_ZERO_VALUES every exported scalar field has its line, zero values as
\* 0, False and "".
C20_ZeroValues ==
    encoder.typ = ZeroType =>
        /\ encoder.err = nil
        /\ \A f \in ScalarsOf(encoder.v) :
              IF f.zero /\ ~isOption(ENCODE_ZERO_VALUES, encoder.options)
              THEN ~HasKey(f.key)
              ELSE (f.key \o " = " \o f.text) \in EncodedLines
        /\ \A k \in DOMAIN encoder.v.M :
              (encoder.v.M[k] = "0" /\ ~isOption(ENCODE_ZERO_VALUES, encoder.options))
                  => ~HasKey(k)

C20_Witness ==
    /\ encoder.typ = ZeroType
    /\ encoder.options = ENCODE_ZERO_VALUES
    /\ encoder.v.S = "" /\ encoder.v.N = "0" /\ ~encoder.v.B /\ encoder.v.Sub.Y = "1"
    /\ {"S = " \o qt \o qt, "N = 0", "B = False", "Y = 1"} \subseteq EncodedLines

\* ---------------------------------------------------------------------------
\* Brace blocks of the encoded text
\* ---------------------------------------------------------------------------

\* the lines of the encoded text in their order, without their indent
EncodedSeq == [i \in 1..Len(ReadLines(encoder.out)) |-> ltrim(ReadLines(encoder.out)[i])]

\* line i opens the block of key
Opens(i, key) == EncodedSeq[i] = key \o " = {"

\* line i opens a block that the next line closes
EmptyBlockAt(i) ==
    /\ i < Len(EncodedSeq)
    /\ Len(EncodedSeq[i]) >= 4
    /\ From(EncodedSeq[i], Len(EncodedSeq[i]) - 3) = " = {"
    /\ EncodedSeq[i + 1] = "}"

\* C21: Encode opens the block of a nested struct or map at most once, and
\* only if the container writes a member: a container whose members are all
\* suppressed or absent writes nothing, not even an empty block.
C21_BraceOnlyWithMember ==
    encoder.typ = ZeroType =>
        /\ \A key \in {"Sub", "M"} : Count(EncodedSeq, key \o " = {") <= 1
        /\ \A i \in 1..Len(EncodedSeq) : ~EmptyBlockAt(i)

\* a map whose only element is zero, encoded without ENCODE_ZERO_VALUES, has
\* written an empty block
C21_EmptyBlock ==
    /\ encoder.typ = ZeroType
    /\ encoder.options = 0
    /\ encoder.v.M = [k \in {"k"} |-> "0"]
    /\ \E i \in 1..Len(EncodedSeq) : Opens(i, "M") /\ EmptyBlockAt(i)

\* ---------------------------------------------------------------------------
\* The line counter
\* ---------------------------------------------------------------------------

\* One Parser reads inputs with blank lines, comment lines, a heredoc and a
\* multiline definition.
LineLines == {"", "# c", "foo", "K=<<E", "E", "M=a\\"}
MaxLineLines == 3

NextLine == \E doc \in Docs(LineLines, MaxLineLines) : ParseStream(doc)
SpecLine == Init /\ [][NextLine]_vars

\* the text of the message e before " at line n"
MessageOf(e, n) == SubSeq(e, 1, Len(e) - Len(" at line " \o Itoa(n)))

\* e is a message at line n
AtLine(e, n) ==
    /\ Len(e) > Len(" at line " \o Itoa(n))
    /\ e = MessageOf(e, n) \o " at line " \o Itoa(n)

\* the message msg can have been raised while line n of doc was being read
\* (a heredoc is unquoted after its last line is read, a duplicate is found
\* after the last line of the definition is read)
RaisedAt(doc, msg, n) ==
    CASE msg = "Invalid data" -> doc[n] \in {"foo", "E"}
      [] msg \in {"No terminating heredoc code",
                  "EOF encountered before multiline termination"} -> n = Len(doc)
      [] msg = "Duplicate key" -> doc[n] # ""
      [] OTHER -> HasPrefix(msg, "invalid syntax: Unquote(") /\ doc[n] = "E"

\* C22: the line counter is the number of physical lines read from the input
\* (blank lines, comment lines, heredoc bodies and continuation lines
\* included), so the number in every message is the physical line that was
\* being read when the error was raised.  (No input of LineLines ends before
\* its last line.)
C22_LineCounter ==
    (calls >= 1 /\ ~panicked) =>
        /\ lineno = Len(src)
        /\ \A i \in 1..Len(errs) :
              \/ errs[i] = "Nothing parsed"
              \/ \E n \in 1..Len(src) :
                    AtLine(errs[i], n) /\ RaisedAt(src, MessageOf(errs[i], n), n)

\* ---------------------------------------------------------------------------
\* Fields without an entry
\* ---------------------------------------------------------------------------

\* struct { S string; N int8; Sub struct { A string; B string };
\*          M map[string]string }
FrameType ==
    StructOf(<<Field("S", Scalar("string")), Field("N", Scalar("int8")),
               Field("Sub", StructOf(<<Field("A", Scalar("string")),
                                       Field("B", Scalar("string"))>>)),
               Field("M", MapOf(Scalar("string")))>>)

\* the destination before the call: every field is set, the map has a key
FrameDest ==
    [S |-> "s0", N |-> "7", Sub |-> [A |-> "a0", B |-> "b0"], M |-> [k \in {"k"} |-> "v0"]]

FrameLines == {"S=1", "N=2", "Sub.A=3", "Sub.B=4", "M.j=5"}
MaxFrameLines == 3

NextFrame ==
    \E doc \in Docs(FrameLines, MaxFrameLines) : Decode(FrameType, FrameDest, 0, doc)

SpecFrame == Init /\ [][NextFrame]_vars

\* the document has an entry for the map M
HasMapEntry == \E k \in DOMAIN vmap : HasPrefix(k, "M.")

\* C23: Decode changes only the fields for which the document has an entry:
\* every other visible field, scalar, struct or map, keeps the value it had
\* before the call, and the missing entry is not an error.  (Stated for the
\* documents that parse without error.)
C23_UnmatchedFieldsKept ==
    (calls = 1 /\ decoder.typ = FrameType /\ ~panicked /\ errs = << >>) =>
        /\ err = nil
        /\ "S" \notin DOMAIN vmap => decoder.v.S = FrameDest.S
        /\ "N" \notin DOMAIN vmap => decoder.v.N = FrameDest.N
        /\ "Sub.A" \notin DOMAIN vmap => decoder.v.Sub.A = FrameDest.Sub.A
        /\ "Sub.B" \notin DOMAIN vmap => decoder.v.Sub.B = FrameDest.Sub.B
        /\ ~HasMapEntry => decoder.v.M = FrameDest.M

\* ---------------------------------------------------------------------------
\* Malformed values
\* ---------------------------------------------------------------------------

\* struct { S string; N int8 }
CrashType == StructOf(<<Field("S", Scalar("string")), Field("N", Scalar("int8"))>>)

\* values that are a single quote, commas only, not a number, and well-formed
CrashLines == {"S=" \o qt, "S=a", "N=,,", "N=,", "N=x", "N=1"}
MaxCrashLines == 2

NextCrash ==
    \E doc \in Docs(CrashLines, MaxCrashLines) :
        \/ Parse(doc)
        \/ Decode(CrashType, Zero(CrashType), 0, doc)

SpecCrash == Init /\ [][NextCrash]_vars

\* C24: Parse and Decode never crash on document content: they return for
\* every input, and a malformed value is reported through the returned error.
C24_NeverPanics == ~panicked

\* Parse of a key whose value is a single double quote has panicked
C24_ParsePanics ==
    /\ panicked
    /\ decoder.typ = NoDecoder.typ
    /\ src = <<"S=" \o qt>>

\* ---------------------------------------------------------------------------
\* Coercion into the elements of a map
\* ---------------------------------------------------------------------------

\* map[string]int8 and struct { M map[string]int8 }
ElemMapType == MapOf(Scalar("int8"))
ElemFieldType == StructOf(<<Field("M", ElemMapType)>>)

ElemMapLines == {"a=1", "b=x", "c=128", "d=2"}
ElemFieldLines == {"M.a=1", "M.b=x", "M.c=128", "M.d=2"}
MaxElemLines == 3

NextElem ==
    \/ \E doc \in Docs(ElemMapLines, MaxElemLines) : Decode(ElemMapType, NilMap, 0, doc)
    \/ \E doc \in Docs(ElemFieldLines, MaxElemLines) :
            Decode(ElemFieldType, Zero(ElemFieldType), 0, doc)

SpecElem == Init /\ [][NextElem]_vars

\* C25: a value that cannot be coerced to the element kind of a map
\* destination (a map passed to Decode, or a scalar map field of a struct)
\* makes Decode return an error; Decode never returns success with the key left
\* out of the map.  (Stated for the documents that parse without error.)
C25_MapCoercionReported ==
    (calls = 1 /\ decoder.typ \in {ElemMapType, ElemFieldType} /\ ~panicked /\ errs = << >>) =>
        ((\E k \in DOMAIN vmap : vmap[k].val \in NotInt8) => err # nil)

\* ---------------------------------------------------------------------------
\* Blocks with equal keys
\* ---------------------------------------------------------------------------

\* struct { P struct { A struct { X string } }
\*          A struct { A struct { X string }; Y string }
\*          Z string }
NestType ==
    StructOf(<<Field("P", StructOf(<<Field("A", StructOf(<<Field("X", Scalar("string"))>>))>>)),
               Field("A", StructOf(<<Field("A", StructOf(<<Field("X", Scalar("string"))>>)),
                                     Field("Y", Scalar("string"))>>)),
               Field("Z", Scalar("string"))>>)

NestStrings == {"", "a", "b"}

NestValues ==
    {[P |-> [A |-> [X |-> pax]], A |-> [A |-> [X |-> aax], Y |-> ay], Z |-> z] :
        pax \in NestStrings, aax \in NestStrings, ay \in NestStrings, z \in NestStrings}

NextNest ==
    \E v \in NestValues, opts \in {0, ENCODE_ZERO_VALUES} :
        Encode(NestType, v, opts, HeredocCode)

SpecNest == Init /\ [][NextNest]_vars

\* the scalars of a value of NestType: key path and value
NestScalars(v) ==
    {[path |-> "P.A.X", val |-> v.P.A.X], [path |-> "A.A.X", val |-> v.A.A.X],
     [path |-> "A.Y", val |-> v.A.Y], [path |-> "Z", val |-> v.Z]}

\* the key paths of the scalars that Encode writes
WrittenPaths ==
    {f.path : f \in {g \in NestScalars(encoder.v) :
                        g.val # "" \/ isOption(ENCODE_ZERO_VALUES, encoder.options)}}

\* the key paths that a parse of the encoded text returns
ParsedPaths == DOMAIN parse(ReadLines(encoder.out), NewState).vmap

\* C26: in the text of Encode every nested struct or map that writes a member
\* is enclosed in its own block, also when its key equals the key of the
\* enclosing block or of the block opened last before it: parsing the text
\* yields the key paths of the value tree.
C26_BlocksMirrorNesting ==
    encoder.typ = NestType => ParsedPaths = WrittenPaths

\* ---------------------------------------------------------------------------
\* Decode of a document with a parse error
\* ---------------------------------------------------------------------------

\* map[string]string with a key
StringMapType == MapOf(Scalar("string"))
StringMapDest == [k \in {"k"} |-> "v0"]

\* lines for the fields of FrameType and for a map, and lines that make the
\* parse report an error
AtomicLines == {"S=1", "N=2", "M.j=5", "foo", "N=<<E"}
MaxAtomicLines == 3

NextAtomic ==
    \E doc \in Docs(AtomicLines, MaxAtomicLines) :
        \/ Decode(FrameType, FrameDest, 0, doc)
        \/ Decode(StringMapType, StringMapDest, 0, doc)

SpecAtomic == Init /\ [][NextAtomic]_vars

\* C27: if the parse of the document reports an error, Decode returns that
\* error and assigns no destination field or map key: the destination is as
\* it was before the call.
C27_ParseErrorLeavesDestination ==
    (calls = 1 /\ ~panicked /\ errs # << >>) =>
        /\ err = getErrors(errs)
        /\ decoder.typ = FrameType => decoder.v = FrameDest
        /\ decoder.typ = StringMapType => decoder.v = StringMapDest

\* a document that sets S and has an invalid line was decoded into the struct
C27_Witness ==
    /\ calls = 1
    /\ decoder.typ = FrameType
    /\ src = <<"S=1", "foo">>
    /\ err = "Invalid data at line 2"
    /\ decoder.v = FrameDest

\* ---------------------------------------------------------------------------
\* Keys that differ in letter case
\* ---------------------------------------------------------------------------

LowerLines == {"K=1", "k=2", "A=3", "a.B=4"}
MaxLowerLines == 3

NextLower == \E doc \in Docs(LowerLines, MaxLowerLines) : Parse(doc)
SpecLower == Init /\ [][NextLower]_vars

\* C28: Parse with PARSE_LOWER_CASE is deterministic: every parse of the
\* input returns the map that this parse returned, also when two keys of the
\* input differ in letter case only.
C28_LowerCaseDeterministic ==
    (calls = 1 /\ ~panicked /\ isOption(PARSE_LOWER_CASE, options)) =>
        \A m \in StringMaps(vmap, options) : m = smap

\* ---------------------------------------------------------------------------
\* Include cycles: ParseFile and DecodeFile call by call
\* ---------------------------------------------------------------------------

\* the number of nested calls the stack of the program holds
MaxStackDepth == 4

\* struct { K string }
CycleType == StructOf(<<Field("K", Scalar("string"))>>)

CycleLines == {"include x", "include m", "K=1"}
MaxCycleLines == 2

\* the files m and x
CycleFiles ==
    {[n \in {"m", "x"} |-> IF n = "m" THEN md ELSE xd] :
        md \in Docs(CycleLines, MaxCycleLines), xd \in Docs(CycleLines, MaxCycleLines)}

\* the include paths that the call for the file loops over after it has read
\* the file: ParseFile ranges over o.include, DecodeFile returns before its
\* loop if DecodeStream returned an error
loopOver(api, r) ==
    IF api = "ParseFile" THEN {r.st.include}
    ELSE {IF x.err # nil THEN << >> ELSE r.st.include :
             x \in decode(CycleType, Zero(CycleType), 0, r)}

\* what a call for each file of fs loops over.  (The files do not change
\* while the program runs, so every call for a file reads the same.)
loopsOf(api, fs) ==
    {f \in [DOMAIN fs -> UNION {loopOver(api, parse(fs[n], NewState)) : n \in DOMAIN fs}] :
        \A n \in DOMAIN fs : f[n] \in loopOver(api, parse(fs[n], NewState))}

\* the call at the top of the stack has returned
fileReturned(cs) == IF cs.frames = << >> THEN [cs EXCEPT !.state = "returned"] ELSE cs

\* ParseFile(filename) or DecodeFile(filename) is called with the calls cs in
\* progress: the stack overflows, or os.Open fails and the call returns, or
\* the file is read and the call is at its loop over the include paths
fileCalled(cs, fs, filename) ==
    IF Len(cs.frames) >= MaxStackDepth THEN [cs EXCEPT !.state = "overflow"]
    ELSE IF filename \notin DOMAIN fs THEN fileReturned(cs)
    ELSE [cs EXCEPT !.frames = Append(@, [name |-> filename, incs |-> cs.loops[filename]])]

\* the files fs are written, then ParseFile or DecodeFile is called
CallFile(fs, api, filename) ==
    /\ ~panicked
    /\ calls = 0
    /\ callstack.state = "idle"
    /\ files' = fs
    /\ \E loops \in loopsOf(api, fs) :
          callstack' = fileCalled([state |-> "running", api |-> api, frames |-> << >>,
                                   loops |-> loops], fs, filename)
    /\ UNCHANGED <<lineno, options, errs, include, src, vmap, smap, err, calls, panicked,
                   decoder, encoder>>

\* the stack cs with the first include path of its top call taken
nextPath(cs) == [cs EXCEPT !.frames[Len(cs.frames)].incs = Tail(@)]

\* one turn of the loop over the include paths: the recursive call
IncludeFile ==
    /\ callstack.state = "running"
    /\ callstack.frames # << >>
    /\ callstack.frames[Len(callstack.frames)].incs # << >>
    /\ callstack' = fileCalled(nextPath(callstack), files,
                               Head(callstack.frames[Len(callstack.frames)].incs))
    /\ panicked' = (callstack'.state = "overflow")
    /\ UNCHANGED <<lineno, options, errs, include, src, vmap, smap, err, calls, files,
                   decoder, encoder>>

\* the loop over the include paths is over: the call returns
ReturnFile ==
    /\ callstack.state = "running"
    /\ callstack.frames # << >>
    /\ callstack.frames[Len(callstack.frames)].incs = << >>
    /\ callstack' = fileReturned([callstack EXCEPT !.frames = SubSeq(@, 1, Len(@) - 1)])
    /\ UNCHANGED <<lineno, options, errs, include, src, vmap, smap, err, calls, panicked,
                   files, decoder, encoder>>

NextCycle ==
    \/ \E fs \in CycleFiles, api \in {"ParseFile", "DecodeFile"} : CallFile(fs, api, "m")
    \/ IncludeFile
    \/ ReturnFile

\* a call in progress runs on: its next step is taken
SpecCycle == Init /\ [][NextCycle]_vars /\ WF_vars(IncludeFile \/ ReturnFile)

\* C29: ParseFile and DecodeFile terminate for every finite set of files, also
\* when the include lines form a cycle: the call returns.
C29_FileCallsTerminate == (callstack.state = "running") ~> (callstack.state = "returned")

\* ---------------------------------------------------------------------------
\* The placeholder of a brace block
\* ---------------------------------------------------------------------------

PlaceholderLines == {"K=" \o nested, "K=2", "B=1", "A {", "}"}
MaxPlaceholderLines == 3

NextPlaceholder == \E doc \in Docs(PlaceholderLines, MaxPlaceholderLines) : Parse(doc)
SpecPlaceholder == Init /\ [][NextPlaceholder]_vars

\* C30: removing the placeholder of a brace block removes only placeholders:
\* the key of a block is no entry of the returned map, and a key/value line
\* with a well-formed key that is not yet defined yields an entry for the key
\* whatever its value, the placeholder text included.  (The first line of a
\* document defines a key that is not yet defined.)
C30_OnlyPlaceholdersRemoved ==
    (calls = 1 /\ ~panicked) =>
        /\ "A" \notin DOMAIN vmap
        /\ (src # << >> /\ src[1] = "K=" \o nested) =>
              ("K" \in DOMAIN vmap /\ vmap["K"].val = nested)
        /\ (src # << >> /\ src[1] = "K=2") =>
              ("K" \in DOMAIN vmap /\ vmap["K"].val = "2")

====
